---- MODULE Spec2Model ----
(***************************************************************************)
(* tinyjs front end: Lexer (src/src/lexer.rs) and recursive-descent Parser *)
(* (src/src/parser.rs) building the tree of src/src/ast.rs.                *)
(*                                                                         *)
(* A source text is a sequence of characters (one-character strings; NUL   *)
(* stands for '\0').  Lexer::walk is run one Lexer::next call per step,    *)
(* Parser::parse one iteration of its statement loop per step.  The        *)
(* parsing functions are operators over a parser state record              *)
(*   [pos, allow_in, st, at, msg, v]                                       *)
(* where st is "ok", "error" (Parser::error, process exit) or "panic"      *)
(* (a Rust panic), at/msg are the token index and message of the error and *)
(* v is the value the function returns.                                    *)
(***************************************************************************)
EXTENDS Integers, Sequences, FiniteSets, TLC

VARIABLES source, row, cursor, prev_cr, output, tokens, pos, allow_in, body, pc, err

vars == <<source, row, cursor, prev_cr, output, tokens, pos, allow_in, body, pc, err>>

NUL == "NUL"

Min(a, b) == IF a < b THEN a ELSE b

(***************************************************************************)
(* Character classes                                                       *)
(***************************************************************************)
Digits == {"0", "1", "2", "3", "4", "5", "6", "7", "8", "9"}

Letters ==
  {"a", "b", "c", "d", "e", "f", "g", "h", "i", "j", "k", "l", "m", "n", "o", "p", "q",
   "r", "s", "t", "u", "v", "w", "x", "y", "z",
   "A", "B", "C", "D", "E", "F", "G", "H", "I", "J", "K", "L", "M", "N", "O", "P", "Q",
   "R", "S", "T", "U", "V", "W", "X", "Y", "Z"}

is_numeric(c) == c \in Digits

is_alphabetic(c) == c \in Letters

is_alphanumeric(c) == is_alphabetic(c) \/ is_numeric(c)

isspace(x) == x \in {"\t", "VT", "\f", " "}

isterminator(x) == x \in {"\r", "\n"}

(***************************************************************************)
(* Lexer.  A lexer state l is [row, line, col, prev_cr]: self.row,         *)
(* self.cursor.line, self.cursor.row and self.prev_cr.                     *)
(***************************************************************************)
CharAt(i) == IF i < Len(source) THEN source[i + 1] ELSE NUL

get_current_char(l) == CharAt(l.row)

peek_char(l, offset) == CharAt(l.row + offset)

\* get_next_char with a line feed counted whatever the character before it
get_next_char_lf_counts(l) ==
  LET c == CharAt(l.row)
      l1 == [l EXCEPT !.row = @ + 1]
  IN  IF c = NUL THEN [l |-> l1, c |-> c]
      ELSE IF c = "\r"
        THEN [l |-> [l1 EXCEPT !.line = @ + 1, !.col = 0, !.prev_cr = TRUE], c |-> c]
      ELSE IF c = "\n"
        THEN [l |-> [l1 EXCEPT !.line = @ + 1, !.col = 0, !.prev_cr = FALSE], c |-> c]
      ELSE [l |-> [l1 EXCEPT !.col = @ + 1, !.prev_cr = FALSE], c |-> c]

\* returns [l |-> the state after the call, c |-> the character]
get_next_char(l) ==
  LET c == CharAt(l.row)
      l1 == [l EXCEPT !.row = @ + 1]
  IN  IF c = NUL THEN [l |-> l1, c |-> c]
      ELSE IF c = "\r"
        THEN [l |-> [l1 EXCEPT !.line = @ + 1, !.col = 0, !.prev_cr = TRUE], c |-> c]
      ELSE IF c = "\n"
        THEN IF l.prev_cr
               THEN [l |-> [l1 EXCEPT !.prev_cr = FALSE], c |-> c]
               ELSE [l |-> [l1 EXCEPT !.line = @ + 1, !.col = 0], c |-> c]
      ELSE [l |-> [l1 EXCEPT !.col = @ + 1, !.prev_cr = FALSE], c |-> c]

\* returns [l, r]: r is the bool the function returns
eat_char(l, expected) ==
  IF get_current_char(l) = expected
    THEN [l |-> get_next_char(l).l, r |-> TRUE]
    ELSE [l |-> l, r |-> FALSE]

RECURSIVE skip_line_comment(_)
\* the while loop of the '/' '/' arm of skip_comment
skip_line_comment(l) ==
  LET c == get_current_char(l)
  IN  IF c # NUL /\ ~isterminator(c)
        THEN skip_line_comment(get_next_char(l).l)
        ELSE l

RECURSIVE skip_block_comment(_, _)
\* the loop of the '/' '*' arm of skip_comment; returns [l, err]
skip_block_comment(l, prev) ==
  LET g == get_next_char(l)
  IN  IF g.c = NUL THEN [l |-> g.l, err |-> "EOF in a comment"]
      ELSE IF prev = "*" /\ g.c = "/" THEN [l |-> g.l, err |-> ""]
      ELSE skip_block_comment(g.l, g.c)

\* returns [l, r, err]
\* skip_comment, once b is bound
skip_comment_b(l, b) ==
  [l |-> b.l, r |-> TRUE, err |-> b.err]

\* skip_comment with the '*' of the opening counted towards the closing
skip_comment_opening_star(l) ==
  IF get_current_char(l) # "/" THEN [l |-> l, r |-> FALSE, err |-> ""]
  ELSE IF peek_char(l, 1) = "/"
    THEN [l |-> skip_line_comment(get_next_char(get_next_char(l).l).l),
          r |-> TRUE, err |-> ""]
  ELSE IF peek_char(l, 1) = "*"
    THEN skip_comment_b(l, skip_block_comment(get_next_char(get_next_char(l).l).l, "*"))
  ELSE [l |-> l, r |-> FALSE, err |-> ""]

skip_comment(l) ==
  IF get_current_char(l) # "/" THEN [l |-> l, r |-> FALSE, err |-> ""]
  ELSE IF peek_char(l, 1) = "/"
    THEN [l |-> skip_line_comment(get_next_char(get_next_char(l).l).l),
          r |-> TRUE, err |-> ""]
  ELSE IF peek_char(l, 1) = "*"
    THEN skip_comment_b(l, skip_block_comment(get_next_char(get_next_char(l).l).l, NUL))
  ELSE [l |-> l, r |-> FALSE, err |-> ""]

RECURSIVE skip_ws(_)
\* the inner while loop of skip_spaces
skip_ws(l) == IF isspace(get_current_char(l)) THEN skip_ws(get_next_char(l).l) ELSE l

RECURSIVE skip_spaces(_)
\* returns [l, err]
\* skip_spaces, once s is bound
skip_spaces_s(l, s) ==
  IF s.err # "" THEN [l |-> s.l, err |-> s.err]
  ELSE IF s.r THEN skip_spaces(s.l)
  ELSE [l |-> s.l, err |-> ""]

skip_spaces(l) ==
  skip_spaces_s(l, skip_comment(skip_ws(l)))

RECURSIVE skip_terminators(_, _)
\* the first loop of Lexer::next; returns [l, saw, err]
\* skip_terminators, once s is bound
skip_terminators_s(l, saw, s) ==
  LET c == get_current_char(s.l)
  IN  IF s.err # "" THEN [l |-> s.l, saw |-> saw, err |-> s.err]
      ELSE IF c = "\r"
        THEN skip_terminators(eat_char(get_next_char(s.l).l, "\n").l, TRUE)
      ELSE IF c = "\n"
        THEN skip_terminators(get_next_char(s.l).l, TRUE)
      ELSE [l |-> s.l, saw |-> saw, err |-> ""]

skip_terminators(l, saw) ==
  skip_terminators_s(l, saw, skip_spaces(l))

keyword_kind(s) ==
  CASE s = <<"b", "r", "e", "a", "k">> -> "Break"
    [] s = <<"f", "o", "r">> -> "For"
    [] s = <<"n", "e", "w">> -> "New"
    [] s = <<"v", "a", "r">> -> "Var"
    [] s = <<"c", "o", "n", "t", "i", "n", "u", "e">> -> "Continue"
    [] s = <<"f", "u", "n", "c", "t", "i", "o", "n">> -> "Function"
    [] s = <<"r", "e", "t", "u", "r", "n">> -> "Return"
    [] s = <<"v", "o", "i", "d">> -> "Void"
    [] s = <<"d", "e", "l", "e", "t", "e">> -> "Delete"
    [] s = <<"i", "f">> -> "If"
    [] s = <<"t", "h", "i", "s">> -> "This"
    [] s = <<"w", "h", "i", "l", "e">> -> "While"
    [] s = <<"e", "l", "s", "e">> -> "Else"
    [] s = <<"i", "n">> -> "In"
    [] s = <<"t", "y", "p", "e", "o", "f">> -> "Typeof"
    [] s = <<"w", "i", "t", "h">> -> "With"
    [] s = <<"t", "r", "u", "e">> -> "True"
    [] s = <<"f", "a", "l", "s", "e">> -> "False"
    [] s = <<"n", "u", "l", "l">> -> "Null"
    [] s = <<"u", "n", "d", "e", "f", "i", "n", "e", "d">> -> "Undefined"
    [] s = <<"c", "a", "s", "e">> -> "Case"
    [] s = <<"d", "e", "b", "u", "g", "g", "e", "r">> -> "Debugger"
    [] s = <<"e", "x", "p", "o", "r", "t">> -> "Export"
    [] s = <<"s", "u", "p", "e", "r">> -> "Super"
    [] s = <<"c", "a", "t", "c", "h">> -> "Catch"
    [] s = <<"d", "e", "f", "a", "u", "l", "t">> -> "Default"
    [] s = <<"e", "x", "t", "e", "n", "d", "s">> -> "Extends"
    [] s = <<"s", "w", "i", "t", "c", "h">> -> "Switch"
    [] s = <<"c", "l", "a", "s", "s">> -> "Class"
    [] s = <<"d", "o">> -> "Do"
    [] s = <<"f", "i", "n", "a", "l", "l", "y">> -> "Finally"
    [] s = <<"t", "h", "r", "o", "w">> -> "Throw"
    [] s = <<"c", "o", "n", "s", "t">> -> "Const"
    [] s = <<"e", "n", "u", "m">> -> "Enum"
    [] s = <<"i", "m", "p", "o", "r", "t">> -> "Import"
    [] s = <<"t", "r", "y">> -> "Try"
    [] OTHER -> "Identifier"

(***************************************************************************)
(* Lexer::next.  Returns [l, token, err]; err # "" is Lexer::error (the    *)
(* process exits and no token is returned).                                *)
(***************************************************************************)
Mk(t, l, content, kind) ==
  [l |-> l, token |-> [t EXCEPT !.content = content, !.kind = kind], err |-> ""]

LexFail(t, l, msg) == [l |-> l, token |-> t, err |-> msg]

\* arms of the form: if self.eat_char('=') { X= } else { X }
with_equal(t, l, x, kindEq, kind) ==
  LET e == eat_char(l, "=")
  IN  IF e.r THEN Mk(t, e.l, <<x, "=">>, kindEq) ELSE Mk(t, e.l, <<x>>, kind)

\* arms '&', '|', '+' and '-': doubled, then '=', then single
doubled_or_equal(t, l, x, kindDouble, kindEq, kind) ==
  LET d == eat_char(l, x)
      e == eat_char(l, "=")
  IN  IF d.r THEN Mk(t, d.l, <<x, x>>, kindDouble)
      ELSE IF e.r THEN Mk(t, e.l, <<x, "=">>, kindEq)
      ELSE Mk(t, l, <<x>>, kind)

less_than_arm(t, l) ==
  LET e == eat_char(l, "=")
      d == eat_char(l, "<")
      de == eat_char(d.l, "=")
  IN  IF e.r THEN Mk(t, e.l, <<"<", "=">>, "LessThanEqual")
      ELSE IF d.r
        THEN IF de.r THEN Mk(t, de.l, <<"<", "<", "=">>, "LeftShiftEqual")
                     ELSE Mk(t, de.l, <<"<", "<">>, "LeftShift")
      ELSE Mk(t, l, <<"<">>, "LessThan")

\* greater_than_arm that never looks for a third '>'
greater_than_arm_short(t, l) ==
  LET e == eat_char(l, "=")
      d == eat_char(l, ">")
      de == eat_char(d.l, "=")
  IN  IF e.r THEN Mk(t, e.l, <<">", "=">>, "GreaterThanEqual")
      ELSE IF d.r
        THEN IF de.r THEN Mk(t, de.l, <<">", ">", "=">>, "RightShiftEqual")
                     ELSE Mk(t, d.l, <<">", ">">>, "RightShift")
      ELSE Mk(t, l, <<">">>, "GreaterThan")

greater_than_arm(t, l) ==
  LET e == eat_char(l, "=")
      d == eat_char(l, ">")
      dd == eat_char(d.l, ">")
      dde == eat_char(dd.l, "=")
      de == eat_char(d.l, "=")
  IN  IF e.r THEN Mk(t, e.l, <<">", "=">>, "GreaterThanEqual")
      ELSE IF d.r
        THEN IF dd.r
               THEN IF dde.r
                      THEN Mk(t, dde.l, <<">", ">", ">", "=">>, "TripleGreaterThanEqual")
                      ELSE Mk(t, dde.l, <<">", ">", ">">>, "TripleGreaterThan")
             ELSE IF de.r THEN Mk(t, de.l, <<">", ">", "=">>, "RightShiftEqual")
             ELSE Mk(t, d.l, <<">", ">">>, "RightShift")
      ELSE Mk(t, l, <<">">>, "GreaterThan")

RECURSIVE string_loop(_, _, _)
\* the loop of the string arm; returns [l, s, err]
string_loop(l, s, delimiter) ==
  LET g == get_next_char(l)
      n == get_next_char(g.l)
  IN  IF g.c = NUL THEN [l |-> g.l, s |-> s, err |-> "EOF in string"]
      ELSE IF g.c = "\\"
        THEN IF n.c = NUL
               THEN [l |-> n.l, s |-> Append(s, g.c), err |-> "EOF in string escape"]
               ELSE string_loop(n.l, s \o <<g.c, n.c>>, delimiter)
      ELSE IF g.c = delimiter THEN [l |-> g.l, s |-> Append(s, g.c), err |-> ""]
      ELSE string_loop(g.l, Append(s, g.c), delimiter)

\* string_arm, once r is bound
string_arm_r(t, l, r) ==
  IF r.err # "" THEN LexFail(t, r.l, r.err) ELSE Mk(t, r.l, r.s, "String")

string_arm(t, l, x) ==
  string_arm_r(t, l, string_loop(l, <<x>>, x))

RECURSIVE number_body(_, _)
\* first while loop of the number arm; returns [l, s]
number_body(l, s) ==
  LET c == get_current_char(l)
      g == get_next_char(l)
  IN  IF c # NUL /\ (is_numeric(c) \/ c = "_" \/ c = "." \/ c = "x")
        THEN number_body(g.l, Append(s, g.c))
        ELSE [l |-> l, s |-> s]

RECURSIVE number_digits(_, _)
\* the while loop of the exponent part; returns [l, s]
number_digits(l, s) ==
  LET c == get_current_char(l)
      g == get_next_char(l)
  IN  IF c # NUL /\ is_numeric(c)
        THEN number_digits(g.l, Append(s, g.c))
        ELSE [l |-> l, s |-> s]

\* the exponent part of the number arm; returns [l, s]
number_exponent(l, s) ==
  IF get_current_char(l) \in {"e", "E"}
    THEN LET g == get_next_char(l)
             s1 == Append(s, g.c)
             h == get_next_char(g.l)
         IN  IF get_current_char(g.l) \in {"+", "-"}
               THEN number_digits(h.l, Append(s1, h.c))
               ELSE number_digits(g.l, s1)
    ELSE [l |-> l, s |-> s]

\* number_arm_e without the check of the character after the literal
number_arm_e_no_separator(t, l, e) ==
  Mk(t, e.l, e.s, "Number")

\* number_arm, once e is bound
number_arm_e(t, l, e) ==
  LET nxt == get_current_char(e.l)
  IN  IF is_alphabetic(nxt) \/ nxt = "$" \/ nxt = "_"
        THEN LexFail(t, e.l, "missing separator after number literal")
        ELSE Mk(t, e.l, e.s, "Number")

\* number_arm, once b is bound
number_arm_b(t, l, b) ==
  number_arm_e(t, l, number_exponent(b.l, b.s))

number_arm(t, l, x) ==
  number_arm_b(t, l, number_body(l, <<x>>))

RECURSIVE identifier_body(_, _)
\* the while loop of the identifier arm; returns [l, s]
identifier_body(l, s) ==
  LET c == get_current_char(l)
      g == get_next_char(l)
  IN  IF c # NUL /\ (is_alphanumeric(c) \/ c = "_")
        THEN identifier_body(g.l, Append(s, g.c))
        ELSE [l |-> l, s |-> s]

\* identifier_arm, once b is bound
identifier_arm_b(t, l, b) ==
  Mk(t, b.l, b.s, keyword_kind(b.s))

identifier_arm(t, l, x) ==
  identifier_arm_b(t, l, identifier_body(l, <<x>>))

SingleCharKind ==
  [c \in {"(", ")", "{", "}", "[", "]", ";", ".", ":", "\\", "~", "?"} |->
     CASE c = "(" -> "OpenParen"
       [] c = ")" -> "CloseParen"
       [] c = "{" -> "OpenCurly"
       [] c = "}" -> "CloseCurly"
       [] c = "[" -> "OpenBracket"
       [] c = "]" -> "CloseBracket"
       [] c = ";" -> "SemiColon"
       [] c = "." -> "Dot"
       [] c = ":" -> "DoubleDot"
       [] c = "\\" -> "BackSlash"
       [] c = "~" -> "Wave"
       [] c = "?" -> "Question"]

\* next, once k is bound
next_k(k) ==
  LET t == [kind |-> "EOF", content |-> <<"E", "O", "F">>,
            line_terminator_before |-> k.saw, line |-> k.l.line, col |-> k.l.col]
      g == get_next_char(k.l)
      x == g.c
      l == g.l
  IN  IF k.err # "" THEN LexFail(t, k.l, k.err)
      ELSE IF x = NUL THEN [l |-> l, token |-> t, err |-> ""]
      ELSE IF x \in DOMAIN SingleCharKind THEN Mk(t, l, <<x>>, SingleCharKind[x])
      ELSE IF x = "*" THEN with_equal(t, l, x, "AsteriskEqual", "Asterisk")
      ELSE IF x = "/" THEN with_equal(t, l, x, "SlashEqual", "Slash")
      ELSE IF x = "&" THEN doubled_or_equal(t, l, x, "And", "AmpersandEqual", "Ampersand")
      ELSE IF x = "|" THEN doubled_or_equal(t, l, x, "Or", "BarEqual", "Bar")
      ELSE IF x = "^" THEN with_equal(t, l, x, "CaretEqual", "Caret")
      ELSE IF x = "%" THEN with_equal(t, l, x, "ModuloEqual", "Modulo")
      ELSE IF x = "=" THEN with_equal(t, l, x, "DoubleEqual", "Equal")
      ELSE IF x = "<" THEN less_than_arm(t, l)
      ELSE IF x \in {"'", "\""} THEN string_arm(t, l, x)
      ELSE IF x = ">" THEN greater_than_arm(t, l)
      ELSE IF x = "!" THEN with_equal(t, l, x, "NotEqual", "Exclamation")
      ELSE IF x = "+" THEN doubled_or_equal(t, l, x, "DoublePlus", "PlusEqual", "Plus")
      ELSE IF x = "-" THEN doubled_or_equal(t, l, x, "DoubleMinus", "MinusEqual", "Minus")
      ELSE IF is_numeric(x) THEN number_arm(t, l, x)
      ELSE IF is_alphabetic(x) \/ x = "$" \/ x = "_" THEN identifier_arm(t, l, x)
      ELSE LexFail(t, l, "Unknown token start")

next(l0) ==
  next_k(skip_terminators(l0, FALSE))

(***************************************************************************)
(* Syntax tree (src/src/ast.rs).  Every node is a record tagged by t.      *)
(***************************************************************************)
None == [t |-> "None"]

Some(x) == [t |-> "Some", v |-> x]

Nil == [t |-> "Nil"]

Identifier(name) == [t |-> "Identifier", name |-> name]

Literal(lit) == [t |-> "Literal", lit |-> lit]

Undefined == Literal([t |-> "Undefined"])

Binary(op, left, right) == [t |-> "Binary", op |-> op, left |-> left, right |-> right]

Update(op, prefix, argument) ==
  [t |-> "Update", op |-> op, prefix |-> prefix, argument |-> argument]

Unary(op, expr) == [t |-> "Unary", op |-> op, expr |-> expr]

Sequence(elements) == [t |-> "Sequence", elements |-> elements]

(***************************************************************************)
(* str::parse::<f64>() on a Number token's text.  Returns [ok, val]:       *)
(* ok = FALSE is the Err on which unwrap() panics.  The text is accepted   *)
(* when it is digits, an optional '.' with digits, and an optional         *)
(* exponent with at least one digit; val keeps the integer part as a       *)
(* number, the fraction digits and the exponent.                           *)
(***************************************************************************)
DigitVal(c) ==
  CASE c = "0" -> 0 [] c = "1" -> 1 [] c = "2" -> 2 [] c = "3" -> 3 [] c = "4" -> 4
    [] c = "5" -> 5 [] c = "6" -> 6 [] c = "7" -> 7 [] c = "8" -> 8 [] c = "9" -> 9

RECURSIVE DigitsVal(_)
DigitsVal(ds) ==
  IF ds = <<>> THEN 0 ELSE 10 * DigitsVal(SubSeq(ds, 1, Len(ds) - 1)) + DigitVal(ds[Len(ds)])

AllDigits(ds) == \A i \in 1..Len(ds) : ds[i] \in Digits

\* index of the first element of s in set S, or Len(s) + 1
FirstIn(s, S) ==
  IF \E i \in 1..Len(s) : s[i] \in S
    THEN CHOOSE i \in 1..Len(s) : s[i] \in S /\ \A j \in 1..(i - 1) : s[j] \notin S
    ELSE Len(s) + 1

ParseF64(s) ==
  LET ePos == FirstIn(s, {"e", "E"})
      mant == SubSeq(s, 1, ePos - 1)
      expo == SubSeq(s, ePos + 1, Len(s))
      dPos == FirstIn(mant, {"."})
      ip == SubSeq(mant, 1, dPos - 1)
      fp == SubSeq(mant, dPos + 1, Len(mant))
      signed == expo # <<>> /\ expo[1] \in {"+", "-"}
      ed == IF signed THEN Tail(expo) ELSE expo
      mantOk == AllDigits(ip) /\ AllDigits(fp) /\ (ip # <<>> \/ fp # <<>>)
      expOk == ePos > Len(s) \/ (ed # <<>> /\ AllDigits(ed))
  IN  IF mantOk /\ expOk
        THEN [ok |-> TRUE,
              val |-> [i |-> DigitsVal(ip), f |-> fp,
                       e |-> IF ePos > Len(s) THEN 0
                             ELSE IF signed /\ expo[1] = "-" THEN 0 - DigitsVal(ed)
                             ELSE DigitsVal(ed)]]
        ELSE [ok |-> FALSE, val |-> Nil]

(***************************************************************************)
(* Parser cursor primitives                                                *)
(***************************************************************************)

Ok(p) == p.st = "ok"

\* the index peek() clamps to
PeekIdx(p) == Min(p.pos, Len(tokens) - 1)

peek(p) == tokens[PeekIdx(p) + 1]

\* the value a parsing function returns, with the parser state after it
Ret(p, v) == IF Ok(p) THEN [p EXCEPT !.v = v] ELSE p

\* Parser::error that takes one more token after the report
error_then_advance(p, msg) ==
  IF Ok(p) THEN [p EXCEPT !.st = "error", !.at = PeekIdx(p), !.msg = msg, !.v = Nil,
                          !.pos = @ + 1]
           ELSE p

\* Parser::error: report at peek() and exit
error(p, msg) ==
  IF Ok(p) THEN [p EXCEPT !.st = "error", !.at = PeekIdx(p), !.msg = msg, !.v = Nil] ELSE p

\* a Rust panic (index out of bounds, unwrap on Err, failed assert!)
Panic(p, msg) ==
  IF Ok(p) THEN [p EXCEPT !.st = "panic", !.at = p.pos, !.msg = msg, !.v = Nil] ELSE p

\* tokens[self.pos] is unclamped: out of bounds panics
advance(p) ==
  CASE ~Ok(p) -> p
    [] p.pos < Len(tokens) -> [p EXCEPT !.pos = @ + 1, !.v = tokens[p.pos + 1]]
    [] OTHER -> Panic(p, "index out of bounds")

check_kind(p, kind) ==
  CASE ~Ok(p) -> [p EXCEPT !.v = FALSE]
    [] peek(p).kind = kind ->
          (LET a == advance(p)
          IN  IF Ok(a) THEN Ret(a, TRUE) ELSE [a EXCEPT !.v = FALSE])
    [] OTHER -> Ret(p, FALSE)

parse_identifier(p) == Ret(advance(p), peek(p).content)

\* parse_string returning the token's text with its quotes
parse_string_keep_quotes(x) == x.content

parse_string(x) ==
  IF x.content # <<>> /\ x.content[1] \in {"'", "\""}
    THEN SubSeq(x.content, 2, Len(x.content) - 1)
    ELSE x.content

(***************************************************************************)
(* Parser: expressions.  Each parsing function takes the parser state and  *)
(* returns the state after it, with the value it returns in v; a state     *)
(* whose st is not "ok" is passed through unchanged (the process has       *)
(* exited).  The code after a call, which goes on from the state the call  *)
(* returns, is a function of that state.  A call self.f() that closes a    *)
(* cycle of the grammar is written self("f", p) and resolved by the        *)
(* operator self, defined after the parsing functions.                     *)
(***************************************************************************)
RECURSIVE self(_, _)
RECURSIVE property_loop(_, _)
RECURSIVE array_loop(_, _)
RECURSIVE function_body_loop(_, _)
RECURSIVE statement_list_loop(_, _)
RECURSIVE parse_conditional_expression(_)
RECURSIVE parse_logical_or_expression(_)
RECURSIVE parse_logical_and_expression(_)
RECURSIVE parse_bitwise_or_expression(_)
RECURSIVE parse_bitwise_xor_expression(_)
RECURSIVE parse_bitwise_and_expression(_)
RECURSIVE parse_equality_expression(_)
RECURSIVE parse_relational_expression(_)
RECURSIVE parse_shift_expression(_)
RECURSIVE parse_additive_expression(_)
RECURSIVE parse_multiplicative_expression(_)
RECURSIVE parse_unary_expression(_)
RECURSIVE parse_postfix_expression(_)
RECURSIVE parse_arguments(_)
RECURSIVE parse_member_expression(_)

\* the loop of parse_expression after an assignment expression: a is the state after
\* it, elements the expressions pushed before it
expression_loop[a \in Any, elements \in Any] ==
  CASE a.st # "ok" -> a
    [] peek(a).kind = "Comma" ->
         expression_loop[self("parse_assignment_expression", advance(a)),
                         Append(elements, a.v)]
    [] elements = <<>> -> a
    [] OTHER -> Ret(a, Sequence(Append(elements, a.v)))

parse_expression(p) == expression_loop[self("parse_assignment_expression", p), <<>>]

\* parse_primary_expression, the OpenParen arm after the expression: expr is the state
\* after it
paren_close[expr \in Any] ==
  CASE expr.st # "ok" -> expr
    [] peek(expr).kind # "CloseParen" -> error(expr, "Unexpected token, expected ')'")
    [] OTHER -> Ret(advance(expr), expr.v)

\* parse_primary_expression, the Number arm: x_content.parse().unwrap()
number_literal(p, f) ==
  IF f.ok THEN Ret(advance(p), Literal([t |-> "Number", value |-> f.val]))
          ELSE Panic(advance(p), "called unwrap() on an Err value")

parse_primary_expression(p) ==
  LET x == peek(p)
  IN  CASE p.st # "ok" -> p
        [] x.kind = "This" -> Ret(advance(p), [t |-> "This"])
        [] x.kind = "Undefined" -> Ret(advance(p), Undefined)
        [] x.kind = "Identifier" -> Ret(advance(p), Identifier(x.content))
        [] x.kind = "String" ->
             Ret(advance(p), Literal([t |-> "String", value |-> parse_string(x)]))
        [] x.kind = "True" -> Ret(advance(p), Literal([t |-> "Bool", value |-> TRUE]))
        [] x.kind = "False" -> Ret(advance(p), Literal([t |-> "Bool", value |-> FALSE]))
        [] x.kind = "Null" -> Ret(advance(p), Literal([t |-> "Null"]))
        [] x.kind = "Number" -> number_literal(p, ParseF64(x.content))
        [] x.kind = "OpenBracket" -> self("parse_array", advance(p))
        [] x.kind = "OpenCurly" -> self("parse_object", advance(p))
        [] x.kind = "OpenParen" -> paren_close[self("parse_expression", advance(p))]
        [] OTHER -> error(p, "unexpected token in expression")


\* parse_object, once props is bound
parse_object_props(p, c, props) ==
  LET d == check_kind(props, "CloseCurly")
  IN  CASE ~Ok(p) -> p
        [] c.v -> Ret(c, Literal([t |-> "Object", props |-> <<>>]))
        [] ~Ok(props) -> props
        [] ~d.v -> error(d, "expected '}' after object")
        [] OTHER -> Ret(d, Literal([t |-> "Object", props |-> props.v]))

parse_object(p) ==
  LET c == check_kind(p, "CloseCurly")
  IN  parse_object_props(p, c, self("parse_property_name_and_value_list", c))

\* property_loop_a with each entry put before the entries already read
property_loop_a_prepend(p, outvec, n, c, a) ==
  LET vec == <<<<n.v, a.v>>>> \o outvec
      m == check_kind(a, "Comma")
  IN  CASE ~Ok(p) -> p
        [] ~Ok(n) -> n
        [] ~c.v -> error(c, "Expected ':' in object")
        [] ~Ok(a) -> a
        [] ~m.v -> Ret(m, vec)
        [] OTHER -> property_loop(m, vec)

\* the loop of parse_property_name_and_value_list
\* property_loop, once a is bound
property_loop_a(p, outvec, n, c, a) ==
  LET vec == Append(outvec, <<n.v, a.v>>)
      m == check_kind(a, "Comma")
  IN  CASE ~Ok(p) -> p
        [] ~Ok(n) -> n
        [] ~c.v -> error(c, "Expected ':' in object")
        [] ~Ok(a) -> a
        [] ~m.v -> Ret(m, vec)
        [] OTHER -> property_loop(m, vec)

\* property_loop, once n is bound
property_loop_n(p, outvec, n) ==
  LET c == check_kind(n, "DoubleDot")
  IN  property_loop_a(p, outvec, n, c, self("parse_assignment_expression", c))

property_loop(p, outvec) ==
  LET k == peek(p)
      f == ParseF64(k.content)
  IN  property_loop_n(p, outvec, CASE k.kind = "String" -> Ret(advance(p), [t |-> "String", value |-> parse_string(k)])
                                   [] k.kind = "Number" ->
                                         (IF f.ok THEN Ret(advance(p), [t |-> "Number", value |-> f.val])
                                                 ELSE Panic(p, "called unwrap() on an Err value"))
                                   [] k.kind = "Identifier" ->
                                         (LET i == parse_identifier(p)
                                         IN  Ret(i, [t |-> "Identifier", name |-> i.v]))
                                   [] OTHER ->
                                         error(p, "Expected a String or a Number or an Identifier"))

parse_property_name_and_value_list(p) == IF ~Ok(p) THEN p ELSE property_loop(p, <<>>)

\* the loop of parse_array
\* array_loop, once a is bound
array_loop_a(p, elements, a) ==
  LET els == Append(elements, a.v)
      b == advance(a)
  IN  CASE ~Ok(p) -> p
        [] peek(p).kind = "Comma" ->
              array_loop(advance(p), Append(elements, Undefined))
        [] ~Ok(a) -> a
        [] peek(a).kind = "Comma" ->
              (IF peek(b).kind = "CloseBracket"
                THEN array_loop(b, Append(els, Undefined))
                ELSE array_loop(b, els))
        [] peek(a).kind = "CloseBracket" ->
              Ret(b, Literal([t |-> "Array", elements |-> els]))
        [] OTHER -> error(a, "expected ',' or ']' in array")

array_loop(p, elements) ==
  array_loop_a(p, elements, self("parse_assignment_expression", p))

parse_array(p) ==
  CASE ~Ok(p) -> p
    [] peek(p).kind = "CloseBracket" ->
          Ret(advance(p), Literal([t |-> "Array", elements |-> <<>>]))
    [] OTHER -> array_loop(p, <<>>)

AssignmentOperators ==
  {"Equal", "PlusEqual", "MinusEqual", "AsteriskEqual", "SlashEqual", "ModuloEqual",
   "LeftShiftEqual", "RightShiftEqual", "TripleGreaterThanEqual", "AmpersandEqual",
   "CaretEqual", "BarEqual"}

\* parse_assignment_operator that returns AssignOp::Assign for every operator
parse_assignment_operator_plain(p) ==
  LET a == advance(p)
  IN  IF Ok(a) THEN Ret(a, "Assign") ELSE a

parse_assignment_operator(p) ==
  LET a == advance(p)
      x == a.v
  IN  CASE ~Ok(a) -> a
        [] x.kind = "Equal" -> Ret(a, "Assign")
        [] x.kind = "PlusEqual" -> Ret(a, "AddAssign")
        [] x.kind = "MinusEqual" -> Ret(a, "SubAssign")
        [] x.kind = "AsteriskEqual" -> Ret(a, "MulAssign")
        [] x.kind = "SlashEqual" -> Ret(a, "DivAssign")
        [] x.kind = "ModuloEqual" -> Ret(a, "ModAssign")
        [] x.kind = "LeftShiftEqual" -> Ret(a, "ShlAssign")
        [] x.kind = "RightShiftEqual" -> Ret(a, "ShrAssign")
        [] x.kind = "TripleGreaterThanEqual" -> Ret(a, "UShrAssign")
        [] x.kind = "AmpersandEqual" -> Ret(a, "BitAndAssign")
        [] x.kind = "CaretEqual" -> Ret(a, "BitXorAssign")
        [] x.kind = "BarEqual" -> Ret(a, "BitOrAssign")
        [] OTHER ->
              [a EXCEPT !.st = "error", !.at = p.pos, !.msg = "illegal assignement operator",
                        !.v = Nil]


\* parse_assignment_expression, the Assign node: left is the state after the target,
\* op after the operator, expr after the value
assign_node(left, op, expr) ==
  Ret(expr, [t |-> "Assign", target |-> left.v, op |-> op.v, value |-> expr.v])

\* parse_assignment_expression after the conditional expression: left is the state
\* after it
assignment_rest[left \in Any] ==
  CASE left.st # "ok" -> left
    [] peek(left).kind \in AssignmentOperators ->
         assign_node(left, parse_assignment_operator(left),
                     self("parse_assignment_expression", parse_assignment_operator(left)))
    [] OTHER -> left

parse_assignment_expression(p) == assignment_rest[parse_conditional_expression(p)]

\* parse_conditional_expression after the ':': c is the state after the condition, a1
\* after the first branch, a2 after the second
ternary_node(c, a1, a2) ==
  Ret(a2, [t |-> "Ternary", cond |-> c.v, then_ |-> a1.v, else_ |-> a2.v])

\* parse_conditional_expression after the first branch: a1 is the state after it
conditional_else(c, a1) ==
  CASE a1.st # "ok" -> a1
    [] peek(a1).kind = "DoubleDot" ->
         ternary_node(c, a1, self("parse_assignment_expression", advance(a1)))
    [] OTHER -> error(a1, "expected ':' in conditional expression")

\* parse_conditional_expression after the condition: c is the state after it
conditional_rest[c \in Any] ==
  CASE c.st # "ok" -> c
    [] peek(c).kind = "Question" ->
         conditional_else(c, self("parse_assignment_expression", advance(c)))
    [] OTHER -> c

parse_conditional_expression(p) == conditional_rest[parse_logical_or_expression(p)]

(***************************************************************************)
(* The ten binary tiers.  Each is                                          *)
(*   let mut expr = operand(); while <operator> { advance; right =         *)
(*   operand(); expr = Binary(op, expr, right) }                           *)
(***************************************************************************)
\* binary_fold folding to the right: a op1 b op2 c becomes Binary(op1, a, Binary(op2, b, c))
binary_fold_right(op, left, right) ==
  IF right.st = "ok"
    THEN [right EXCEPT !.v = IF left.v.t = "Binary"
                               THEN Binary(left.v.op, left.v.left,
                                           Binary(op, left.v.right, right.v))
                               ELSE Binary(op, left.v, right.v)]
    ELSE right

\* expr = Binary { op, left: expr, right }: left is the state after the left operand,
\* right after the right one
binary_fold(op, left, right) ==
  IF right.st = "ok" THEN [right EXCEPT !.v = Binary(op, left.v, right.v)] ELSE right


\* the operator of parse_logical_or_expression that the token kind k selects, or ""
logical_or_op(k) ==
  CASE k = "Or" -> "Or"
    [] OTHER -> ""

\* the loop of parse_logical_or_expression; expr is the state after an operand, expr.v the
\* expression so far
logical_or_loop[expr \in Any] ==
  CASE expr.st # "ok" -> expr
    [] logical_or_op(peek(expr).kind) # "" ->
         logical_or_loop[binary_fold(logical_or_op(peek(expr).kind), expr,
                                 self("parse_logical_and_expression", advance(expr)))]
    [] OTHER -> expr

parse_logical_or_expression(p) == logical_or_loop[parse_logical_and_expression(p)]

\* the operator of parse_logical_and_expression that the token kind k selects, or ""
logical_and_op(k) ==
  CASE k = "And" -> "And"
    [] OTHER -> ""

\* the loop of parse_logical_and_expression; expr is the state after an operand, expr.v the
\* expression so far
logical_and_loop[expr \in Any] ==
  CASE expr.st # "ok" -> expr
    [] logical_and_op(peek(expr).kind) # "" ->
         logical_and_loop[binary_fold(logical_and_op(peek(expr).kind), expr,
                                 self("parse_bitwise_or_expression", advance(expr)))]
    [] OTHER -> expr

parse_logical_and_expression(p) == logical_and_loop[parse_bitwise_or_expression(p)]

\* the operator of parse_bitwise_or_expression that the token kind k selects, or ""
bitwise_or_op(k) ==
  CASE k = "Bar" -> "BitOr"
    [] OTHER -> ""

\* the loop of parse_bitwise_or_expression; expr is the state after an operand, expr.v the
\* expression so far
bitwise_or_loop[expr \in Any] ==
  CASE expr.st # "ok" -> expr
    [] bitwise_or_op(peek(expr).kind) # "" ->
         bitwise_or_loop[binary_fold(bitwise_or_op(peek(expr).kind), expr,
                                 self("parse_bitwise_xor_expression", advance(expr)))]
    [] OTHER -> expr

parse_bitwise_or_expression(p) == bitwise_or_loop[parse_bitwise_xor_expression(p)]

\* the operator of parse_bitwise_xor_expression that the token kind k selects, or ""
bitwise_xor_op(k) ==
  CASE k = "Caret" -> "BitXor"
    [] OTHER -> ""

\* the loop of parse_bitwise_xor_expression; expr is the state after an operand, expr.v the
\* expression so far
bitwise_xor_loop[expr \in Any] ==
  CASE expr.st # "ok" -> expr
    [] bitwise_xor_op(peek(expr).kind) # "" ->
         bitwise_xor_loop[binary_fold(bitwise_xor_op(peek(expr).kind), expr,
                                 self("parse_bitwise_and_expression", advance(expr)))]
    [] OTHER -> expr

parse_bitwise_xor_expression(p) == bitwise_xor_loop[parse_bitwise_and_expression(p)]

\* the operator of parse_bitwise_and_expression that the token kind k selects, or ""
bitwise_and_op(k) ==
  CASE k = "Ampersand" -> "BitAnd"
    [] OTHER -> ""

\* the loop of parse_bitwise_and_expression; expr is the state after an operand, expr.v the
\* expression so far
bitwise_and_loop[expr \in Any] ==
  CASE expr.st # "ok" -> expr
    [] bitwise_and_op(peek(expr).kind) # "" ->
         bitwise_and_loop[binary_fold(bitwise_and_op(peek(expr).kind), expr,
                                 self("parse_equality_expression", advance(expr)))]
    [] OTHER -> expr

parse_bitwise_and_expression(p) == bitwise_and_loop[parse_equality_expression(p)]

\* the operator of parse_equality_expression that the token kind k selects, or ""
equality_op(k) ==
  CASE k = "DoubleEqual" -> "Eq"
    [] k = "NotEqual" -> "Ne"
    [] OTHER -> ""

\* the loop of parse_equality_expression; expr is the state after an operand, expr.v the
\* expression so far
equality_loop[expr \in Any] ==
  CASE expr.st # "ok" -> expr
    [] equality_op(peek(expr).kind) # "" ->
         equality_loop[binary_fold(equality_op(peek(expr).kind), expr,
                                 self("parse_relational_expression", advance(expr)))]
    [] OTHER -> expr

parse_equality_expression(p) == equality_loop[parse_relational_expression(p)]

\* the operator of parse_relational_expression that the token kind k selects, or ""
relational_op(k, allow) ==
  CASE k = "LessThan" -> "Lt"
    [] k = "GreaterThan" -> "Gt"
    [] k = "GreaterThanEqual" -> "Ge"
    [] k = "LessThanEqual" -> "Le"
    [] k = "In" /\ allow -> "In"
    [] OTHER -> ""

\* the loop of parse_relational_expression; expr is the state after an operand, expr.v the
\* expression so far
relational_loop[expr \in Any] ==
  CASE expr.st # "ok" -> expr
    [] relational_op(peek(expr).kind, expr.allow_in) # "" ->
         relational_loop[binary_fold(relational_op(peek(expr).kind, expr.allow_in), expr,
                                 self("parse_shift_expression", advance(expr)))]
    [] OTHER -> expr

parse_relational_expression(p) == relational_loop[parse_shift_expression(p)]

\* the operator of parse_shift_expression that the token kind k selects, or ""
shift_op(k) ==
  CASE k = "LeftShift" -> "Shl"
    [] k = "RightShift" -> "Shr"
    [] k = "TripleGreaterThan" -> "UShr"
    [] OTHER -> ""

\* the loop of parse_shift_expression; expr is the state after an operand, expr.v the
\* expression so far
shift_loop[expr \in Any] ==
  CASE expr.st # "ok" -> expr
    [] shift_op(peek(expr).kind) # "" ->
         shift_loop[binary_fold(shift_op(peek(expr).kind), expr,
                                 self("parse_additive_expression", advance(expr)))]
    [] OTHER -> expr

parse_shift_expression(p) == shift_loop[parse_additive_expression(p)]

\* the operator of parse_additive_expression that the token kind k selects, or ""
additive_op(k) ==
  CASE k = "Plus" -> "Add"
    [] k = "Minus" -> "Sub"
    [] OTHER -> ""

\* the loop of parse_additive_expression; expr is the state after an operand, expr.v the
\* expression so far
additive_loop[expr \in Any] ==
  CASE expr.st # "ok" -> expr
    [] additive_op(peek(expr).kind) # "" ->
         additive_loop[binary_fold(additive_op(peek(expr).kind), expr,
                                 self("parse_multiplicative_expression", advance(expr)))]
    [] OTHER -> expr

parse_additive_expression(p) == additive_loop[parse_multiplicative_expression(p)]

\* multiplicative_op taking the additive operators as its own
multiplicative_op_with_additive(k) ==
  CASE k = "Asterisk" -> "Mul"
    [] k = "Slash" -> "Div"
    [] k = "Modulo" -> "Mod"
    [] k = "Plus" -> "Add"
    [] k = "Minus" -> "Sub"
    [] OTHER -> ""

\* the operator of parse_multiplicative_expression that the token kind k selects, or ""
multiplicative_op(k) ==
  CASE k = "Asterisk" -> "Mul"
    [] k = "Slash" -> "Div"
    [] k = "Modulo" -> "Mod"
    [] OTHER -> ""

\* the loop of parse_multiplicative_expression; expr is the state after an operand, expr.v the
\* expression so far
multiplicative_loop[expr \in Any] ==
  CASE expr.st # "ok" -> expr
    [] multiplicative_op(peek(expr).kind) # "" ->
         multiplicative_loop[binary_fold(multiplicative_op(peek(expr).kind), expr,
                                 self("parse_unary_expression", advance(expr)))]
    [] OTHER -> expr

parse_multiplicative_expression(p) == multiplicative_loop[parse_unary_expression(p)]

\* the prefix operators of parse_unary_expression and the nodes they build
unary_node(k, expr) ==
  CASE k = "Delete" -> Unary("Delete", expr)
    [] k = "Void" -> Unary("Void", expr)
    [] k = "Typeof" -> Unary("Typeof", expr)
    [] k = "DoublePlus" -> Update("Inc", TRUE, expr)
    [] k = "DoubleMinus" -> Update("Dec", TRUE, expr)
    [] k = "Plus" -> Unary("Pos", expr)
    [] k = "Minus" -> Unary("Neg", expr)
    [] k = "Wave" -> Unary("BitNot", expr)
    [] k = "Exclamation" -> Unary("Not", expr)

UnaryOperators ==
  {"Delete", "Void", "Typeof", "DoublePlus", "DoubleMinus", "Plus", "Minus", "Wave",
   "Exclamation"}

\* parse_unary_expression, a prefix arm after its operand: expr is the state after it
unary_fold(k, expr) ==
  IF expr.st = "ok" THEN [expr EXCEPT !.v = unary_node(k, expr.v)] ELSE expr

parse_unary_expression(p) ==
  CASE p.st # "ok" -> p
    [] peek(p).kind \in UnaryOperators ->
         unary_fold(peek(p).kind, parse_unary_expression(advance(p)))
    [] OTHER -> self("parse_postfix_expression", p)

\* parse_postfix_expression after the member expression: expr is the state after it
postfix_rest[expr \in Any] ==
  CASE expr.st # "ok" -> expr
    [] peek(expr).line_terminator_before -> expr
    [] peek(expr).kind = "DoublePlus" -> Ret(advance(expr), Update("Inc", FALSE, expr.v))
    [] peek(expr).kind = "DoubleMinus" -> Ret(advance(expr), Update("Dec", FALSE, expr.v))
    [] OTHER -> expr

\* postfix_rest without the line_terminator_before test
postfix_rest_any_line[expr \in Any] ==
  CASE expr.st # "ok" -> expr
    [] peek(expr).kind = "DoublePlus" -> Ret(advance(expr), Update("Inc", FALSE, expr.v))
    [] peek(expr).kind = "DoubleMinus" -> Ret(advance(expr), Update("Dec", FALSE, expr.v))
    [] OTHER -> expr

parse_postfix_expression_any_line(p) == postfix_rest_any_line[parse_member_expression(p)]

parse_postfix_expression(p) == postfix_rest[parse_member_expression(p)]

\* the loop of parse_arguments after an argument: a is the state after it, args the
\* arguments pushed before it
arguments_loop[a \in Any, args \in Any] ==
  CASE a.st # "ok" -> a
    [] peek(a).kind = "Comma" ->
         arguments_loop[self("parse_assignment_expression", advance(a)), Append(args, a.v)]
    [] peek(a).kind = "CloseParen" -> Ret(advance(a), Sequence(Append(args, a.v)))
    [] OTHER -> error(a, "expected ',' or ')' in arguments")

parse_arguments(p) ==
  CASE p.st # "ok" -> p
    [] peek(p).kind = "CloseParen" -> Ret(advance(p), Sequence(<<>>))
    [] OTHER -> arguments_loop[self("parse_assignment_expression", p), <<>>]

\* parse_member_expression, the Call node: expr is the state after the callee, args
\* after the arguments
call_node(expr, args) == Ret(args, [t |-> "Call", callee |-> expr.v, args |-> args.v])

\* index_node with object and index exchanged
index_node_swapped(expr, index) ==
  CASE index.st # "ok" -> index
    [] peek(index).kind # "CloseBracket" -> error(index, "expected ']'")
    [] OTHER -> Ret(advance(index), [t |-> "Index", object |-> index.v, index |-> expr.v])

\* parse_member_expression, the Index node: expr is the state after the object, index
\* after the index expression
index_node(expr, index) ==
  CASE index.st # "ok" -> index
    [] peek(index).kind # "CloseBracket" -> error(index, "expected ']'")
    [] OTHER -> Ret(advance(index), [t |-> "Index", object |-> expr.v, index |-> index.v])

\* parse_member_expression, the Member node: expr is the state after the object, d
\* after the '.'
member_node(expr, d) ==
  CASE d.st # "ok" -> d
    [] peek(d).kind # "Identifier" -> error(d, "expected identifier after '.'")
    [] OTHER -> Ret(parse_identifier(d),
                    [t |-> "Member", object |-> expr.v, property |-> parse_identifier(d).v])

\* the suffix loop of parse_member_expression: expr is the state after the expression
\* so far
member_loop[expr \in Any] ==
  CASE expr.st # "ok" -> expr
    [] peek(expr).kind = "OpenParen" ->
         member_loop[call_node(expr, self("parse_arguments", advance(expr)))]
    [] peek(expr).kind = "OpenBracket" ->
         member_loop[index_node(expr, self("parse_expression", advance(expr)))]
    [] peek(expr).kind = "Dot" -> member_loop[member_node(expr, advance(expr))]
    [] OTHER -> expr

\* parse_member_expression, the New node: callee is the state after the callee, args
\* after the arguments
new_node(callee, args) == Ret(args, [t |-> "New", callee |-> callee.v, args |-> args.v])

\* parse_member_expression, the `new` arm after the callee: callee is the state after it
new_arm[callee \in Any] ==
  CASE callee.st # "ok" -> callee
    [] peek(callee).kind = "OpenParen" ->
         new_node(callee, self("parse_arguments", advance(callee)))
    [] OTHER -> Ret(callee, [t |-> "New", callee |-> callee.v, args |-> Sequence(<<>>)])

parse_member_expression(p) ==
  CASE p.st # "ok" -> p
    [] peek(p).kind = "Function" ->
         member_loop[self("parse_function_expression", advance(p))]
    [] peek(p).kind = "New" -> member_loop[new_arm[parse_member_expression(advance(p))]]
    [] OTHER -> member_loop[parse_primary_expression(p)]


RECURSIVE parameter_loop(_, _)
\* the loop of parse_parameter_list
parameter_loop(p, outvec) ==
  LET i == parse_identifier(p)
      vec == Append(outvec, i.v)
  IN  CASE ~Ok(p) -> p
        [] peek(p).kind # "Identifier" ->
              error(p, "expected identifier in parameter list")
        [] peek(i).kind = "Comma" -> parameter_loop(advance(i), vec)
        [] peek(i).kind = "CloseParen" -> Ret(i, vec)
        [] OTHER -> error(i, "expected ',' or ')' in parameter list")

parse_parameter_list(p) ==
  CASE ~Ok(p) -> p
    [] peek(p).kind = "CloseParen" -> Ret(p, <<>>)
    [] OTHER -> parameter_loop(p, <<>>)

\* the while loop of parse_function_body
\* function_body_loop, once s is bound
function_body_loop_s(p, stmts, s) ==
  CASE ~Ok(p) -> p
    [] peek(p).kind # "CloseCurly" /\ peek(p).kind # "EOF" ->
          (IF ~Ok(s) THEN s ELSE function_body_loop(s, Append(stmts, s.v)))
    [] OTHER -> Ret(p, stmts)

function_body_loop(p, stmts) ==
  function_body_loop_s(p, stmts, self("parse_statement", p))

\* parse_function_body, once b is bound
parse_function_body_b(b) ==
  LET c == check_kind(b, "CloseCurly")
  IN  CASE ~Ok(b) -> b
        [] ~c.v -> error(c, "expected '}' in function body")
        [] OTHER -> Ret(c, b.v)

parse_function_body(p) ==
  parse_function_body_b(function_body_loop(p, <<>>))

\* what parse_function_expression and parse_function_declaration share: from the
\* '(' after the optional name to the end of the body; returns the Function record
\* function_rest, once b is bound
function_rest_b(n, name, c1, params, c2, c3, b) ==
  CASE ~Ok(n) -> n
    [] ~c1.v -> error(c1, "expected '(' after function name")
    [] ~Ok(params) -> params
    [] ~c2.v -> error(c2, "Not found ')' after '('")
    [] ~c3.v -> error(c3, "expected '{' after ')'")
    [] ~Ok(b) -> b
    [] OTHER -> Ret(b, [name |-> name, params |-> params.v, body |-> b.v])

\* function_rest, once params is bound
function_rest_params(n, name, c1, params) ==
  LET c2 == check_kind(params, "CloseParen")
      c3 == check_kind(c2, "OpenCurly")
  IN  function_rest_b(n, name, c1, params, c2, c3, self("parse_function_body", c3))

function_rest(n, name) ==
  LET c1 == check_kind(n, "OpenParen")
  IN  function_rest_params(n, name, c1, parse_parameter_list(c1))

\* parse_function_expression, once f is bound
parse_function_expression_f(p, f) ==
  IF ~Ok(p) THEN p
  ELSE Ret(f, [t |-> "Function", f |-> f.v])

parse_function_expression(p) ==
  LET n == IF peek(p).kind = "Identifier" THEN parse_identifier(p) ELSE p
      name == IF peek(p).kind = "Identifier" THEN Some(n.v) ELSE None
  IN  parse_function_expression_f(p, function_rest(n, name))

parse_function_declaration(p) ==
  LET c == check_kind(p, "Function")
      n == parse_identifier(c)
  IN  CASE ~Ok(p) -> p
        [] ~c.v -> error(c, "expected 'function' keyword")
        [] peek(c).kind # "Identifier" -> error(c, "expected function name")
        [] OTHER -> function_rest(n, Some(n.v))

(***************************************************************************)
(* Parser: statements                                                      *)
(***************************************************************************)
\* consume_semicolon_or_insert without the line_terminator_before test
consume_semicolon_or_insert_no_newline(p) ==
  LET c == check_kind(p, "SemiColon")
  IN  CASE ~Ok(p) -> p
        [] c.v -> c
        [] peek(c).kind = "CloseCurly" \/ peek(c).kind = "EOF" -> c
        [] OTHER -> error(c, "expected ';'")

\* consume_semicolon_or_insert that takes the token it stops at when it inserts
consume_semicolon_or_insert_take(p) ==
  LET c == check_kind(p, "SemiColon")
  IN  CASE ~Ok(p) -> p
        [] c.v -> c
        [] peek(c).kind = "CloseCurly" \/ peek(c).kind = "EOF"
                            \/ peek(c).line_terminator_before ->
              advance(c)
        [] OTHER -> error(c, "expected ';'")

consume_semicolon_or_insert(p) ==
  LET c == check_kind(p, "SemiColon")
  IN  CASE ~Ok(p) -> p
        [] c.v -> c
        [] peek(c).kind = "CloseCurly" \/ peek(c).kind = "EOF"
                            \/ peek(c).line_terminator_before ->
              c
        [] OTHER -> error(c, "expected ';'")

RECURSIVE variable_declaration_loop(_, _)
\* the loop of parse_variable_declaration_list
\* variable_declaration_loop, once init is bound
variable_declaration_loop_init(p, decls, name, init) ==
  LET vs == Append(decls, <<name, Some(init.v)>>)
      m == check_kind(init, "Comma")
  IN  CASE ~Ok(p) -> p
        [] ~Ok(init) -> init
        [] ~m.v -> Ret(m, vs)
        [] peek(m).kind # "Identifier" ->
              error(m, "expected identifier after ',' in variable declaration")
        [] OTHER -> variable_declaration_loop(m, vs)

variable_declaration_loop(p, decls) ==
  LET name == peek(p).content
      a == advance(p)
      c == check_kind(a, "Equal")
  IN  variable_declaration_loop_init(p, decls, name, IF c.v THEN self("parse_assignment_expression", c) ELSE Ret(c, Undefined))

parse_variable_declaration_list(p) ==
  CASE ~Ok(p) -> p
    [] peek(p).kind # "Identifier" ->
          error(p, "expected identifier in variable declaration")
    [] OTHER -> variable_declaration_loop(p, <<>>)

\* parse_variable_statement, once e is bound
parse_variable_statement_e(p, c, vs, e) ==
  CASE ~Ok(p) -> p
    [] c.v -> Ret(e, [t |-> "Var", vars |-> vs.v])
    [] OTHER -> error(c, "'var' expected but not found in parse_variable_statement()")

\* parse_variable_statement, once vs is bound
parse_variable_statement_vs(p, c, vs) ==
  parse_variable_statement_e(p, c, vs, consume_semicolon_or_insert(vs))

parse_variable_statement(p) ==
  LET c == check_kind(p, "Var")
  IN  parse_variable_statement_vs(p, c, self("parse_variable_declaration_list", c))

\* parse_if_statement, once stmt2 is bound
parse_if_statement_stmt2(p, i, o, expr, c, stmt, e, stmt2) ==
  CASE ~Ok(p) -> p
    [] ~i.v -> error(i, "'if' keyword is missing (source: parse_if_statement())")
    [] o.v ->
          (CASE ~Ok(expr) -> expr
  [] ~c.v -> error(c, "Parenthese not closed")
  [] ~Ok(stmt) -> stmt
  [] e.v ->
        Ret(stmt2, [t |-> "If", cond |-> expr.v, then_ |-> stmt.v,
                    else_ |-> Some(stmt2.v)])
  [] OTHER -> Ret(e, [t |-> "If", cond |-> expr.v, then_ |-> stmt.v, else_ |-> None]))
    [] OTHER -> error(o, "'if' keyword is missing (source: parse_if_statement())")

\* parse_if_statement, once stmt is bound
parse_if_statement_stmt(p, i, o, expr, c, stmt) ==
  LET e == check_kind(stmt, "Else")
  IN  parse_if_statement_stmt2(p, i, o, expr, c, stmt, e, self("parse_statement", e))

\* parse_if_statement, once expr is bound
parse_if_statement_expr(p, i, o, expr) ==
  LET c == check_kind(expr, "CloseParen")
  IN  parse_if_statement_stmt(p, i, o, expr, c, self("parse_statement", c))

parse_if_statement(p) ==
  LET i == check_kind(p, "If")
      o == check_kind(i, "OpenParen")
  IN  parse_if_statement_expr(p, i, o, self("parse_expression", o))

\* the `while` arm of parse_iteration_statement; w is the state after `while`
\* while_arm, once stmt is bound
while_arm_stmt(o, expr, c, stmt) ==
  CASE ~o.v -> error(o, "Expected '(' after the 'while' keyword")
    [] ~Ok(expr) -> expr
    [] ~c.v -> error(c, "Expected ')' after '('")
    [] OTHER -> Ret(stmt, [t |-> "While", cond |-> expr.v, body |-> stmt.v])

\* while_arm, once expr is bound
while_arm_expr(o, expr) ==
  LET c == check_kind(expr, "CloseParen")
  IN  while_arm_stmt(o, expr, c, self("parse_statement", c))

while_arm(w) ==
  LET o == check_kind(w, "OpenParen")
  IN  while_arm_expr(o, self("parse_expression", o))

\* `in` seen in a for head: the expression, ')' and the body; i is the state after `in`
\* for_in_rest, once b is bound
for_in_rest_b(name, expr, c, b) ==
  CASE ~Ok(expr) -> expr
    [] ~c.v -> error(c, "Expected ')' after '('")
    [] OTHER -> Ret(b, [t |-> "ForIn", var |-> name, expr |-> expr.v, body |-> b.v])

\* for_in_rest, once expr is bound
for_in_rest_expr(name, expr) ==
  LET c == check_kind(expr, "CloseParen")
  IN  for_in_rest_b(name, expr, c, self("parse_statement", c))

for_in_rest(i, name) ==
  for_in_rest_expr(name, self("parse_expression", i))

\* condition, update and body of a C-style for; s is the state after the first ';'
\* for_rest, once b is bound
for_rest_b(init, cond, update, b) ==
  CASE ~Ok(cond) -> cond
    [] ~Ok(update) -> update
    [] OTHER ->
          Ret(b, [t |-> "For", init |-> init, cond |-> cond.v, update |-> update.v,
                  body |-> b.v])

\* for_rest, once ue is bound
for_rest_ue(init, cond, u1, ue) ==
  LET u2 == check_kind(ue, "CloseParen")
      update == CASE u1.v -> Ret(u1, None)
                  [] ~Ok(ue) -> ue
                  [] ~u2.v -> error(u2, "Expected ')' after update in 'for'")
                  [] OTHER -> Ret(u2, Some(ue.v))
  IN  for_rest_b(init, cond, update, self("parse_statement", update))

\* for_rest, once ce is bound
for_rest_ce(init, c1, ce) ==
  LET c2 == check_kind(ce, "SemiColon")
      cond == CASE c1.v -> Ret(c1, None)
                [] ~Ok(ce) -> ce
                [] ~c2.v -> error(c2, "Expected ';' after condition in 'for'")
                [] OTHER -> Ret(c2, Some(ce.v))
      u1 == check_kind(cond, "CloseParen")
  IN  for_rest_ue(init, cond, u1, self("parse_expression", u1))

\* for_rest building the For node without its init
for_rest_without_init(s, init) ==
  LET c1 == check_kind(s, "SemiColon")
  IN  for_rest_ce(None, c1, self("parse_expression", c1))

for_rest(s, init) ==
  LET c1 == check_kind(s, "SemiColon")
  IN  for_rest_ce(init, c1, self("parse_expression", c1))

\* for_var_arm_firstvar without the test firstvar.len() != 1
for_var_arm_firstvar_any_len(v, prev_allow_in, firstvar) ==
  LET restored == [firstvar EXCEPT !.allow_in = prev_allow_in]
      i == check_kind(restored, "In")
      s == check_kind(i, "SemiColon")
  IN  CASE ~Ok(firstvar) -> firstvar
        [] i.v -> for_in_rest(i, firstvar.v[1][1])
        [] ~s.v -> error(s, "Expected ';' after variable declaration list")
        [] OTHER -> for_rest(s, Some([t |-> "Var", vars |-> firstvar.v]))

\* the `for (var` arm; v is the state after `var`
\* for_var_arm, once firstvar is bound
for_var_arm_firstvar(v, prev_allow_in, firstvar) ==
  LET restored == [firstvar EXCEPT !.allow_in = prev_allow_in]
      i == check_kind(restored, "In")
      s == check_kind(i, "SemiColon")
  IN  CASE ~Ok(firstvar) -> firstvar
        [] i.v ->
              (IF Len(firstvar.v) # 1
                THEN error(i, "expected a single variable in 'for...in'")
                ELSE for_in_rest(i, firstvar.v[1][1]))
        [] ~s.v -> error(s, "Expected ';' after variable declaration list")
        [] OTHER -> for_rest(s, Some([t |-> "Var", vars |-> firstvar.v]))

for_var_arm(v) ==
  LET prev_allow_in == v.allow_in
  IN  for_var_arm_firstvar(v, prev_allow_in, self("parse_variable_declaration_list", [v EXCEPT !.allow_in = FALSE]))

\* for_expr_arm_first without self.allow_in = prev_allow_in
for_expr_arm_first_no_restore(v, sc, prev_allow_in, first) ==
  LET i == check_kind(first, "In")
      s == check_kind(i, "SemiColon")
  IN  CASE sc.v -> for_rest(sc, None)
        [] ~Ok(first) -> first
        [] i.v ->
              (IF first.v.t = "Identifier"
                THEN for_in_rest(i, first.v.name)
                ELSE error(i, "expected identifier before 'in' in 'for...in'"))
        [] ~s.v -> error(s, "Expected ';' after initializer in 'for'")
        [] OTHER -> for_rest(s, Some([t |-> "Expr", expr |-> first.v]))

\* the `for (` arm without `var`; v is the state after '('
\* for_expr_arm, once first is bound
for_expr_arm_first(v, sc, prev_allow_in, first) ==
  LET restored == [first EXCEPT !.allow_in = prev_allow_in]
      i == check_kind(restored, "In")
      s == check_kind(i, "SemiColon")
  IN  CASE sc.v -> for_rest(sc, None)
        [] ~Ok(first) -> first
        [] i.v ->
              (IF first.v.t = "Identifier"
                THEN for_in_rest(i, first.v.name)
                ELSE error(i, "expected identifier before 'in' in 'for...in'"))
        [] ~s.v -> error(s, "Expected ';' after initializer in 'for'")
        [] OTHER -> for_rest(s, Some([t |-> "Expr", expr |-> first.v]))

\* for_expr_arm parsing the init expression without self.allow_in = false
for_expr_arm_allow_in(v) ==
  LET sc == check_kind(v, "SemiColon")
      prev_allow_in == sc.allow_in
  IN  for_expr_arm_first(v, sc, prev_allow_in, self("parse_expression", sc))

for_expr_arm(v) ==
  LET sc == check_kind(v, "SemiColon")
      prev_allow_in == sc.allow_in
  IN  for_expr_arm_first(v, sc, prev_allow_in, self("parse_expression", [sc EXCEPT !.allow_in = FALSE]))

parse_iteration_statement(p) ==
  LET w == check_kind(p, "While")
      f == check_kind(w, "For")
      o == check_kind(f, "OpenParen")
      v == check_kind(o, "Var")
  IN  CASE ~Ok(p) -> p
        [] w.v -> while_arm(w)
        [] f.v ->
              (IF o.v
                THEN IF v.v THEN for_var_arm(v) ELSE for_expr_arm(v)
                ELSE error(o, "Expected '(' after the 'for' keyword"))
        [] OTHER -> error(f, "No more options for iteration statement")

parse_continue_statement(p) ==
  LET c == check_kind(p, "Continue")
  IN  CASE ~Ok(p) -> p
        [] c.v -> Ret(consume_semicolon_or_insert(c), [t |-> "Continue"])
        [] OTHER -> error(c, "Expected 'continue'")

parse_break_statement(p) ==
  LET c == check_kind(p, "Break")
  IN  CASE ~Ok(p) -> p
        [] c.v -> Ret(consume_semicolon_or_insert(c), [t |-> "Break"])
        [] OTHER -> error(c, "Expected 'break'")

\* parse_return_statement without the line_terminator_before test
parse_return_statement_no_newline(p, c, expr) ==
  CASE ~Ok(p) -> p
    [] c.v ->
          (IF peek(c).kind = "SemiColon" \/ peek(c).kind = "CloseCurly"
             \/ peek(c).kind = "EOF"
            THEN Ret(consume_semicolon_or_insert(c), [t |-> "Return", arg |-> None])
            ELSE Ret(consume_semicolon_or_insert(expr),
                     [t |-> "Return", arg |-> Some(expr.v)]))
    [] OTHER -> error(c, "Expected 'return'")

\* parse_return_statement, once expr is bound
parse_return_statement_expr(p, c, expr) ==
  CASE ~Ok(p) -> p
    [] c.v ->
          (IF peek(c).kind = "SemiColon" \/ peek(c).kind = "CloseCurly"
             \/ peek(c).kind = "EOF" \/ peek(c).line_terminator_before
            THEN Ret(consume_semicolon_or_insert(c), [t |-> "Return", arg |-> None])
            ELSE Ret(consume_semicolon_or_insert(expr),
                     [t |-> "Return", arg |-> Some(expr.v)]))
    [] OTHER -> error(c, "Expected 'return'")

parse_return_statement(p) ==
  LET c == check_kind(p, "Return")
  IN  parse_return_statement_expr(p, c, self("parse_expression", c))

\* parse_with_statement, once stmt is bound
parse_with_statement_stmt(p, w, o, expr, c, stmt) ==
  CASE ~Ok(p) -> p
    [] ~w.v -> Panic(w, "assertion failed: self.check_kind(TokenKind::With)")
    [] ~o.v -> error(o, "Expected '('")
    [] ~Ok(expr) -> expr
    [] ~c.v -> error(c, "Expected ')'")
    [] OTHER -> Ret(stmt, [t |-> "With", expr |-> expr.v, body |-> stmt.v])

\* parse_with_statement, once expr is bound
parse_with_statement_expr(p, w, o, expr) ==
  LET c == check_kind(expr, "CloseParen")
  IN  parse_with_statement_stmt(p, w, o, expr, c, self("parse_statement", c))

parse_with_statement(p) ==
  LET w == check_kind(p, "With")
      o == check_kind(w, "OpenParen")
  IN  parse_with_statement_expr(p, w, o, self("parse_expression", o))

\* the while loop of parse_statement_list
\* statement_list_loop, once s is bound
statement_list_loop_s(p, stmts, s) ==
  CASE ~Ok(p) -> p
    [] peek(p).kind # "CloseCurly" /\ peek(p).kind # "EOF" ->
          (IF ~Ok(s) THEN s ELSE statement_list_loop(s, Append(stmts, s.v)))
    [] OTHER -> Ret(p, stmts)

statement_list_loop(p, stmts) ==
  statement_list_loop_s(p, stmts, self("parse_statement", p))

parse_statement_list(p) == statement_list_loop(p, <<>>)

\* parse_block, once stmts is bound
parse_block_stmts(p, o, stmts) ==
  LET c == check_kind(stmts, "CloseCurly")
  IN  CASE ~Ok(p) -> p
        [] ~o.v -> error(o, "expected '{'")
        [] peek(o).kind = "CloseCurly" ->
              Ret(advance(o), [t |-> "Block", stmts |-> <<>>])
        [] ~Ok(stmts) -> stmts
        [] ~c.v -> error(c, "expected '}'")
        [] OTHER -> Ret(c, [t |-> "Block", stmts |-> stmts.v])

parse_block(p) ==
  LET o == check_kind(p, "OpenCurly")
  IN  parse_block_stmts(p, o, self("parse_statement_list", o))

\* parse_statement, once expr is bound
parse_statement_expr(p, k, f, expr) ==
  CASE ~Ok(p) -> p
    [] k = "Function" -> Ret(f, [t |-> "Function", f |-> f.v])
    [] k = "OpenCurly" -> self("parse_block", p)
    [] k = "SemiColon" -> Ret(advance(p), [t |-> "Empty"])
    [] k = "Var" -> self("parse_variable_statement", p)
    [] k = "If" -> self("parse_if_statement", p)
    [] k = "While" \/ k = "For" -> self("parse_iteration_statement", p)
    [] k = "Continue" -> self("parse_continue_statement", p)
    [] k = "Break" -> self("parse_break_statement", p)
    [] k = "Return" -> self("parse_return_statement", p)
    [] k = "With" -> self("parse_with_statement", p)
    [] OTHER ->
          Ret(consume_semicolon_or_insert(expr), [t |-> "Expr", expr |-> expr.v])

\* parse_statement, once f is bound
parse_statement_f(p, k, f) ==
  parse_statement_expr(p, k, f, self("parse_expression", p))

parse_statement(p) ==
  LET k == peek(p).kind
  IN  parse_statement_f(p, k, self("parse_function_declaration", p))

(***************************************************************************)
(* self(fn, p) is the method call self.fn() in parser state p              *)
(***************************************************************************)
self(fn, p) ==
  CASE fn = "parse_expression" -> parse_expression(p)
    [] fn = "parse_primary_expression" -> parse_primary_expression(p)
    [] fn = "parse_object" -> parse_object(p)
    [] fn = "parse_property_name_and_value_list" -> parse_property_name_and_value_list(p)
    [] fn = "parse_array" -> parse_array(p)
    [] fn = "parse_assignment_expression" -> parse_assignment_expression(p)
    [] fn = "parse_conditional_expression" -> parse_conditional_expression(p)
    [] fn = "parse_unary_expression" -> parse_unary_expression(p)
    [] fn = "parse_postfix_expression" -> parse_postfix_expression(p)
    [] fn = "parse_arguments" -> parse_arguments(p)
    [] fn = "parse_member_expression" -> parse_member_expression(p)
    [] fn = "parse_function_expression" -> parse_function_expression(p)
    [] fn = "parse_function_body" -> parse_function_body(p)
    [] fn = "parse_statement" -> parse_statement(p)
    [] fn = "parse_block" -> parse_block(p)
    [] fn = "parse_statement_list" -> parse_statement_list(p)
    [] fn = "parse_variable_statement" -> parse_variable_statement(p)
    [] fn = "parse_variable_declaration_list" -> parse_variable_declaration_list(p)
    [] fn = "parse_if_statement" -> parse_if_statement(p)
    [] fn = "parse_iteration_statement" -> parse_iteration_statement(p)
    [] fn = "parse_continue_statement" -> parse_continue_statement(p)
    [] fn = "parse_break_statement" -> parse_break_statement(p)
    [] fn = "parse_return_statement" -> parse_return_statement(p)
    [] fn = "parse_with_statement" -> parse_with_statement(p)
    [] fn = "parse_function_declaration" -> parse_function_declaration(p)
    [] fn = "parse_logical_or_expression" -> parse_logical_or_expression(p)
    [] fn = "parse_logical_and_expression" -> parse_logical_and_expression(p)
    [] fn = "parse_bitwise_or_expression" -> parse_bitwise_or_expression(p)
    [] fn = "parse_bitwise_xor_expression" -> parse_bitwise_xor_expression(p)
    [] fn = "parse_bitwise_and_expression" -> parse_bitwise_and_expression(p)
    [] fn = "parse_equality_expression" -> parse_equality_expression(p)
    [] fn = "parse_relational_expression" -> parse_relational_expression(p)
    [] fn = "parse_shift_expression" -> parse_shift_expression(p)
    [] fn = "parse_additive_expression" -> parse_additive_expression(p)
    [] fn = "parse_multiplicative_expression" -> parse_multiplicative_expression(p)

(***************************************************************************)
(* The run: Lexer::walk, then Parser::parse on the tokens it returned      *)
(* (src/src/main.rs, tests/es1_statements.rs parse_program).               *)
(*   pc = "walk"        in the loop of Lexer::walk                         *)
(*        "lexed"       walk has returned output; parse not yet called     *)
(*        "parse"       in the while loop of Parser::parse                 *)
(*        "done"        parse has returned Program { body }                *)
(*        "lex_error"   Lexer::error: the process has exited               *)
(*        "parse_error" Parser::error: the process has exited              *)
(*        "panic"       a Rust panic                                       *)
(***************************************************************************)
NoError == [at |-> 0 - 1, msg |-> ""]

\* a fresh Lexer and Parser on the text src, as main and the tests build them
\* a run whose Parser was not constructed with allow_in: true
Start_in_disabled(src) ==
  /\ source = src
  /\ row = 0
  /\ cursor = [line |-> 0, row |-> 0]
  /\ prev_cr = FALSE
  /\ output = <<>>
  /\ tokens = <<>>
  /\ pos = 0
  /\ allow_in = FALSE
  /\ body = <<>>
  /\ pc = "walk"
  /\ err = NoError

Start(src) ==
  /\ source = src
  /\ row = 0
  /\ cursor = [line |-> 0, row |-> 0]
  /\ prev_cr = FALSE
  /\ output = <<>>
  /\ tokens = <<>>
  /\ pos = 0
  /\ allow_in = TRUE
  /\ body = <<>>
  /\ pc = "walk"
  /\ err = NoError

\* WalkStep with the test for EOF made before the push: the loop is left
\* without the EOF token in output
WalkStep_break_before_push ==
  /\ pc = "walk"
  /\ LET r == next([row |-> row, line |-> cursor.line, col |-> cursor.row,
                    prev_cr |-> prev_cr])
     IN  /\ row' = r.l.row
         /\ cursor' = [line |-> r.l.line, row |-> r.l.col]
         /\ prev_cr' = r.l.prev_cr
         /\ IF r.err # ""
              THEN /\ pc' = "lex_error"
                   /\ err' = [at |-> r.l.row, msg |-> r.err]
                   /\ output' = output
              ELSE /\ output' = IF r.token.kind = "EOF" THEN output ELSE Append(output, r.token)
                   /\ pc' = IF r.token.kind = "EOF" THEN "lexed" ELSE "walk"
                   /\ err' = err
  /\ UNCHANGED <<source, tokens, pos, allow_in, body>>

\* one iteration of the loop of Lexer::walk: a call of Lexer::next
WalkStep ==
  /\ pc = "walk"
  /\ LET r == next([row |-> row, line |-> cursor.line, col |-> cursor.row,
                    prev_cr |-> prev_cr])
     IN  /\ row' = r.l.row
         /\ cursor' = [line |-> r.l.line, row |-> r.l.col]
         /\ prev_cr' = r.l.prev_cr
         /\ IF r.err # ""
              THEN /\ pc' = "lex_error"
                   /\ err' = [at |-> r.l.row, msg |-> r.err]
                   /\ output' = output
              ELSE /\ output' = Append(output, r.token)
                   /\ pc' = IF r.token.kind = "EOF" THEN "lexed" ELSE "walk"
                   /\ err' = err
  /\ UNCHANGED <<source, tokens, pos, allow_in, body>>

\* Parser::parse, up to its loop: self.tokens = tokens; self.pos = 0; body = []
ParseEntry ==
  /\ pc = "lexed"
  /\ tokens' = output
  /\ pos' = 0
  /\ body' = <<>>
  /\ pc' = "parse"
  /\ UNCHANGED <<source, row, cursor, prev_cr, output, allow_in, err>>

\* the parser state record of the Parser fields
Here == [pos |-> pos, allow_in |-> allow_in, st |-> "ok", at |-> 0 - 1, msg |-> "", v |-> Nil]

\* the body of the while loop of Parser::parse
\* parse_loop_body, once f is bound
parse_loop_body_f(p, f) ==
  IF peek(p).kind = "Function"
    THEN Ret(f, [t |-> "Function", f |-> f.v])
    ELSE self("parse_statement", p)

\* a loop body of Parser::parse that returns a statement without taking a token
parse_loop_body_no_token(p) ==
  Ret(p, [t |-> "Empty"])

parse_loop_body(p) ==
  parse_loop_body_f(p, self("parse_function_declaration", p))

\* one iteration of the while loop of Parser::parse
ParseLoop ==
  /\ pc = "parse"
  /\ peek(Here).kind # "EOF"
  /\ LET r == parse_loop_body(Here)
     IN  /\ pos' = r.pos
         /\ allow_in' = r.allow_in
         /\ IF Ok(r)
              THEN /\ body' = Append(body, r.v)
                   /\ pc' = "parse"
                   /\ err' = err
              ELSE /\ body' = body
                   /\ pc' = IF r.st = "error" THEN "parse_error" ELSE "panic"
                   /\ err' = [at |-> r.at, msg |-> r.msg]
  /\ UNCHANGED <<source, row, cursor, prev_cr, output, tokens>>

\* the loop of Parser::parse ends at EOF and Program { body } is returned
ParseReturn ==
  /\ pc = "parse"
  /\ peek(Here).kind = "EOF"
  /\ pc' = "done"
  /\ UNCHANGED <<source, row, cursor, prev_cr, output, tokens, pos, allow_in, body, err>>

Next == WalkStep \/ ParseEntry \/ ParseLoop \/ ParseReturn

(***************************************************************************)
(* Source texts                                                            *)
(***************************************************************************)
SeqsUpTo(S, n) == UNION {[1..k -> S] : k \in 0..n}

RECURSIVE Flatten(_)
\* the words of ws, each followed by one space
Flatten(ws) == IF ws = <<>> THEN <<>> ELSE Head(ws) \o <<" ">> \o Flatten(Tail(ws))

\* Spec: every text of at most MaxSrcLen characters over LexAlphabet
MaxSrcLen == 4

LexAlphabet == {"a", "1", ";", " ", "\n", "/", "*", "'", "\\", NUL, "#"}

Init == \E src \in SeqsUpTo(LexAlphabet, MaxSrcLen) : Start(src)

Spec == Init /\ [][Next]_vars

\* SpecStmt: every text of at most MaxWords words of StmtWords, each word
\* followed by a space, and the two texts of the ASI tests
MaxWords == 4

StmtWords ==
  {<<"a">>, <<"1">>, <<";">>, <<"\n">>, <<"}">>, <<"v", "a", "r">>,
   <<"b", "r", "e", "a", "k">>, <<"r", "e", "t", "u", "r", "n">>,
   <<"c", "o", "n", "t", "i", "n", "u", "e">>}

ReturnAsiText == <<"r", "e", "t", "u", "r", "n", "\n", "1", ";">>

BreakAsiText == <<"b", "r", "e", "a", "k", "\n", ";">>

StmtSources ==
  {Flatten(ws) : ws \in SeqsUpTo(StmtWords, MaxWords)} \cup {ReturnAsiText, BreakAsiText}

InitStmt == \E src \in StmtSources : Start(src)

SpecStmt == InitStmt /\ [][Next]_vars

(***************************************************************************)
(* Token lists.  Parser::parse is public and takes any Vec<Token>, so the  *)
(* parser is also started on token lists that no text lexes to (Lexer::next*)
(* has no arm for ',').                                                    *)
(***************************************************************************)
OperatorKind(w) ==
  CASE w = <<",">> -> "Comma"
    [] w = <<"=">> -> "Equal"
    [] w = <<"+", "+">> -> "DoublePlus"
    [] w = <<"-", "-">> -> "DoubleMinus"
    [] w = <<"|", "|">> -> "Or"
    [] w = <<"&", "&">> -> "And"
    [] w = <<"|">> -> "Bar"
    [] w = <<"^">> -> "Caret"
    [] w = <<"&">> -> "Ampersand"
    [] w = <<"=", "=">> -> "DoubleEqual"
    [] w = <<"!", "=">> -> "NotEqual"
    [] w = <<"<">> -> "LessThan"
    [] w = <<">">> -> "GreaterThan"
    [] w = <<">", "=">> -> "GreaterThanEqual"
    [] w = <<"<", "=">> -> "LessThanEqual"
    [] w = <<"<", "<">> -> "LeftShift"
    [] w = <<">", ">">> -> "RightShift"
    [] w = <<">", ">", ">">> -> "TripleGreaterThan"
    [] w = <<"+">> -> "Plus"
    [] w = <<"-">> -> "Minus"
    [] w = <<"*">> -> "Asterisk"
    [] w = <<"/">> -> "Slash"
    [] w = <<"%">> -> "Modulo"
    [] w = <<"!">> -> "Exclamation"
    [] w = <<"+", "=">> -> "PlusEqual"
    [] w = <<"-", "=">> -> "MinusEqual"
    [] w = <<"*", "=">> -> "AsteriskEqual"
    [] w = <<"/", "=">> -> "SlashEqual"
    [] w = <<"%", "=">> -> "ModuloEqual"
    [] w = <<"<", "<", "=">> -> "LeftShiftEqual"
    [] w = <<">", ">", "=">> -> "RightShiftEqual"
    [] w = <<">", ">", ">", "=">> -> "TripleGreaterThanEqual"
    [] w = <<"&", "=">> -> "AmpersandEqual"
    [] w = <<"^", "=">> -> "CaretEqual"
    [] w = <<"|", "=">> -> "BarEqual"

\* the kind of the token whose content is the word w
KindOfWord(w) ==
  IF Len(w) = 1 /\ w[1] \in DOMAIN SingleCharKind THEN SingleCharKind[w[1]]
  ELSE IF is_numeric(w[1]) THEN "Number"
  ELSE IF w[1] \in {"'", "\""} THEN "String"
  ELSE IF is_alphabetic(w[1]) THEN keyword_kind(w)
  ELSE OperatorKind(w)

TokenOfWord(w) ==
  [kind |-> KindOfWord(w), content |-> w, line_terminator_before |-> FALSE,
   line |-> 0, col |-> 0]

EOFToken ==
  [kind |-> "EOF", content |-> <<"E", "O", "F">>, line_terminator_before |-> FALSE,
   line |-> 0, col |-> 0]

\* the token list of the words ws, ended by EOF
TokensOfWords(ws) == [i \in 1..(Len(ws) + 1) |->
                        IF i <= Len(ws) THEN TokenOfWord(ws[i]) ELSE EOFToken]

\* a fresh Parser about to be given the token list toks
StartTokens(toks) ==
  /\ source = <<>>
  /\ row = 0
  /\ cursor = [line |-> 0, row |-> 0]
  /\ prev_cr = FALSE
  /\ output = toks
  /\ tokens = <<>>
  /\ pos = 0
  /\ allow_in = TRUE
  /\ body = <<>>
  /\ pc = "lexed"
  /\ err = NoError

\* the word list ws as a text to lex and as a token list
StartWords(ws) == Start(Flatten(ws)) \/ StartTokens(TokensOfWords(ws))

\* SpecExpr: `x op1 y op2 z ;` for all binary operators, `new` expressions
\* and array literals of at most MaxItems elements and commas
BinaryWords ==
  {<<"|", "|">>, <<"&", "&">>, <<"|">>, <<"^">>, <<"&">>, <<"=", "=">>, <<"!", "=">>,
   <<"<">>, <<">">>, <<">", "=">>, <<"<", "=">>, <<"i", "n">>, <<"<", "<">>, <<">", ">">>,
   <<">", ">", ">">>, <<"+">>, <<"-">>, <<"*">>, <<"/">>, <<"%">>}

OperandWords == {<<"a">>, <<"1">>}

ChainWords ==
  {<<x, op1, y, op2, z, <<";">>>> :
     x \in OperandWords, y \in OperandWords, z \in OperandWords,
     op1 \in BinaryWords, op2 \in BinaryWords}

NewWords ==
  {<<<<"n", "e", "w">>, <<"F">>, <<"(">>, <<"a">>, <<")">>, <<";">>>>,
   <<<<"n", "e", "w">>, <<"F">>, <<"(">>, <<")">>, <<";">>>>,
   <<<<"n", "e", "w">>, <<"F">>, <<";">>>>,
   <<<<"n", "e", "w">>, <<"F">>, <<".">>, <<"b">>, <<"(">>, <<"a">>, <<")">>, <<";">>>>,
   <<<<"n", "e", "w">>, <<"F">>, <<"(">>, <<"a">>, <<",">>, <<"1">>, <<")">>, <<";">>>>}

MaxItems == 5

ItemWords == {<<"1">>, <<"2">>, <<",">>}

ArrayWords ==
  {<<<<"[">>>> \o items \o <<<<"]">>, <<";">>>> : items \in SeqsUpTo(ItemWords, MaxItems)}

\* the texts of parses_operator_precedence_mul_over_add, parses_operator_associativity_left,
\* parses_new_expression and parses_array_literal (tests/es1_statements.rs)
PrecedenceText == <<"1", " ", "+", " ", "2", " ", "*", " ", "3", ";">>

AssociativityText == <<"1", " ", "-", " ", "2", " ", "-", " ", "3", ";">>

NewText == <<"n", "e", "w", " ", "F", "(", "a", ")", ";">>

ArrayText == <<"[", "1", ",", " ", "2", ",", " ", "3", "]", ";">>

ExprTexts == {PrecedenceText, AssociativityText, NewText, ArrayText}

InitExpr ==
  \/ \E ws \in ChainWords \cup NewWords \cup ArrayWords : StartWords(ws)
  \/ \E src \in ExprTexts : Start(src)

SpecExpr == InitExpr /\ [][Next]_vars

\* SpecFor: `for ( INIT REST ) ;` for the inits and the rests below, with `var` lists of
\* at most MaxDecls declarations, and the `for` texts of tests/es1_statements.rs
MaxDecls == 2

\* a declaration: a name, with or without an initializer
DeclWords == {<<<<"i">>>>, <<<<"i">>, <<"=">>, <<"0">>>>, <<<<"j">>>>, <<<<"j">>, <<"=">>, <<"a">>>>}

RECURSIVE DeclList(_)
\* the declarations ds, separated by commas
DeclList(ds) ==
  IF Len(ds) = 1 THEN ds[1] ELSE ds[1] \o <<<<",">>>> \o DeclList(Tail(ds))

VarInitWords ==
  {<<<<"v", "a", "r">>>> \o DeclList(ds) : ds \in SeqsUpTo(DeclWords, MaxDecls) \ {<<>>}}

ExprInitWords == {<<>>, <<<<"i">>>>, <<<<"0">>>>, <<<<"i">>, <<"=">>, <<"0">>>>, <<<<"(">>, <<"i">>, <<")">>>>, <<<<"a">>, <<".">>, <<"b">>>>, <<<<"i">>, <<"+">>, <<"1">>>>}

RestWords == {<<>>, <<<<"i", "n">>, <<"o">>>>, <<<<";">>, <<";">>>>, <<<<";">>, <<"i">>, <<"<">>, <<"1">>, <<";">>>>, <<<<";">>, <<";">>, <<"i">>, <<"+", "+">>>>, <<<<";">>, <<"i">>, <<"<">>, <<"1">>, <<";">>, <<"i">>, <<"+", "+">>>>}

ForWords ==
  {<<<<"f", "o", "r">>, <<"(">>>> \o init \o rest \o <<<<")">>, <<";">>>> :
     init \in VarInitWords \cup ExprInitWords, rest \in RestWords}

ForInText == <<"f", "o", "r", " ", "(", "i", " ", "i", "n", " ", "o", "b", "j", ")", " ", ";">>

ForInVarText == <<"f", "o", "r", " ", "(", "v", "a", "r", " ", "i", " ", "=", " ", "0", " ", "i", "n", " ", "o", "b", "j", ")", " ", ";">>

ForText == <<"f", "o", "r", " ", "(", "i", " ", "=", " ", "0", ";", " ", "i", " ", "<", " ", "1", ";", " ", "i", "+", "+", ")", " ", ";">>

ForVarText == <<"f", "o", "r", " ", "(", "v", "a", "r", " ", "i", " ", "=", " ", "0", ";", " ", "i", " ", "<", " ", "1", ";", " ", "i", "+", "+", ")", " ", ";">>

ForTexts == {ForInText, ForInVarText, ForText, ForVarText}

InitFor ==
  \/ \E ws \in ForWords : StartWords(ws)
  \/ \E src \in ForTexts : Start(src)

SpecFor == InitFor /\ [][Next]_vars

\* SpecObj: `x = { ENTRY , ... , ENTRY } ;` with at most MaxProps entries, each a key
\* token, `:` or another token in its place, and a value
MaxProps == 2

KeyWords == {<<"a">>, <<"'", "b", "'">>, <<"\"", "c", "'", "\"">>, <<"3">>, <<"+">>}

EntryWords ==
  {<<k, c, v>> : k \in KeyWords, c \in {<<":">>, <<"=">>}, v \in {<<"1">>, <<"a">>}}

RECURSIVE EntryList(_)
\* the entries es, separated by commas
EntryList(es) ==
  IF es = <<>> THEN <<>>
  ELSE IF Len(es) = 1 THEN es[1]
  ELSE es[1] \o <<<<",">>>> \o EntryList(Tail(es))

ObjectWords ==
  {<<<<"x">>, <<"=">>, <<"{">>>> \o EntryList(es) \o <<<<"}">>, <<";">>>> :
     es \in SeqsUpTo(EntryWords, MaxProps)}

\* the same literals as statements: `{ ENTRY , ... , ENTRY } ;`
ObjectStatementWords ==
  {<<<<"{">>>> \o EntryList(es) \o <<<<"}">>, <<";">>>> : es \in SeqsUpTo(EntryWords, MaxProps)}

\* the text of parses_object_literal (tests/es1_statements.rs) and its words
ObjectText ==
  <<"{", "a", ":", " ", "1", ",", " ", "\"", "b", "\"", ":", " ", "2", ",", " ", "3", ":", " ",
    "4", "}", ";">>

ObjectTextWords ==
  <<<<"{">>, <<"a">>, <<":">>, <<"1">>, <<",">>, <<"\"", "b", "\"">>, <<":">>, <<"2">>, <<",">>,
    <<"3">>, <<":">>, <<"4">>, <<"}">>, <<";">>>>

InitObj ==
  \/ \E ws \in ObjectWords \cup ObjectStatementWords \cup {ObjectTextWords} : StartWords(ws)
  \/ Start(ObjectText)

SpecObj == InitObj /\ [][Next]_vars

\* SpecFn: `function NAME ( PARAMS ) { BODY }` with and without a name, as a statement
\* and as the right side of `x =`, and the text of parses_function_expression
\* (tests/es1_statements.rs) with its words
FunctionWords ==
  {pre \o <<<<"f", "u", "n", "c", "t", "i", "o", "n">>>> \o name \o <<<<"(">>>> \o params
       \o <<<<")">>, <<"{">>>> \o stmts \o <<<<"}">>>> \o semi :
     pre \in {<<>>, <<<<"x">>, <<"=">>>>},
     name \in {<<>>, <<<<"f">>>>},
     params \in {<<>>, <<<<"a">>>>, <<<<"a">>, <<",">>, <<"b">>>>},
     stmts \in {<<>>, <<<<";">>>>, <<<<"r", "e", "t", "u", "r", "n">>, <<"a">>, <<";">>>>},
     semi \in {<<>>, <<<<";">>>>}}

FunctionText ==
  <<"f", "u", "n", "c", "t", "i", "o", "n", "(", "a", ",", " ", "b", ")", " ", "{", " ",
    "r", "e", "t", "u", "r", "n", " ", "a", ";", " ", "}", ";">>

InitFn ==
  \/ \E ws \in FunctionWords : StartWords(ws)
  \/ Start(FunctionText)

SpecFn == InitFn /\ [][Next]_vars

\* SpecChain: `obj SUFFIX ... SUFFIX ;` with at most MaxSuffixes suffixes `. a`, `[ b ]`,
\* `( )` and `( c )`, and the text of parses_member_and_index_expression
\* (tests/es1_statements.rs)
MaxSuffixes == 3

SuffixWords ==
  {<<<<".">>, <<"a">>>>, <<<<"[">>, <<"b">>, <<"]">>>>, <<<<"(">>, <<")">>>>,
   <<<<"(">>, <<"c">>, <<")">>>>}

RECURSIVE Concat(_)
\* the sequences of ss, one after the other
Concat(ss) == IF ss = <<>> THEN <<>> ELSE Head(ss) \o Concat(Tail(ss))

SuffixChainWords ==
  {<<<<"o", "b", "j">>>> \o Concat(ss) \o <<<<";">>>> : ss \in SeqsUpTo(SuffixWords, MaxSuffixes)}

MemberIndexText == <<"o", "b", "j", ".", "a", "[", "b", "]", ";">>

InitChain ==
  \/ \E ws \in SuffixChainWords : StartWords(ws)
  \/ Start(MemberIndexText)

SpecChain == InitChain /\ [][Next]_vars

\* SpecPostfix: `MEMBER SEP OP REST` with a space or a line terminator before the
\* `++` or `--`, and the text of parses_update_postfix_expression
\* (tests/es1_statements.rs)
PostfixOperandWords ==
  {<<<<"a">>>>, <<<<"a">>, <<".">>, <<"b">>>>, <<<<"a">>, <<"[">>, <<"1">>, <<"]">>>>,
   <<<<"f">>, <<"(">>, <<")">>>>}

PostfixRestWords ==
  {<<>>, <<<<";">>>>, <<<<"b">>>>, <<<<"b">>, <<";">>>>, <<<<"\n">>, <<"b">>, <<";">>>>,
   <<<<"}">>>>}

PostfixWords ==
  {e \o sep \o <<op>> \o rest :
     e \in PostfixOperandWords, sep \in {<<>>, <<<<"\n">>>>, <<<<"\r">>, <<"\n">>>>},
     op \in {<<"+", "+">>, <<"-", "-">>}, rest \in PostfixRestWords}

UpdatePostfixText == <<"a", "-", "-", ";">>

InitPostfix ==
  \/ \E ws \in PostfixWords : Start(Flatten(ws))
  \/ \E ws \in {w \in PostfixWords : \A i \in 1..Len(w) : w[i] \notin {<<"\n">>, <<"\r">>}} :
        StartTokens(TokensOfWords(ws))
  \/ Start(UpdatePostfixText)

SpecPostfix == InitPostfix /\ [][Next]_vars

\* SpecTrivia: the texts made of at most MaxPieces pieces: a name, a space, a line
\* terminator, a line comment, a block comment with and without a line terminator in it
MaxPieces == 4

TriviaPieces ==
  {<<"a">>, <<" ">>, <<"\n">>, <<"\r">>, <<"/", "/", "b">>, <<"/", "*", "*", "/">>,
   <<"/", "*", "\n", "*", "/">>}

TriviaTexts == {Concat(ps) : ps \in SeqsUpTo(TriviaPieces, MaxPieces)}

InitTrivia == \E src \in TriviaTexts : Start(src)

SpecTrivia == InitTrivia /\ [][Next]_vars

\* SpecString: every text of at most MaxStrLen characters over StringAlphabet, and the
\* text 'Hi'
MaxStrLen == 5

StringAlphabet == {"'", "\"", "\\", "a", ";"}

HiText == <<"'", "H", "i", "'">>

InitString ==
  \/ \E src \in SeqsUpTo(StringAlphabet, MaxStrLen) : Start(src)
  \/ Start(HiText)

SpecString == InitString /\ [][Next]_vars

\* SpecUnterminated: every text of at most MaxOpenLen characters over OpenAlphabet
MaxOpenLen == 4

OpenAlphabet == {"'", "\"", "\\", "/", "*", "a", "\n"}

InitUnterminated == \E src \in SeqsUpTo(OpenAlphabet, MaxOpenLen) : Start(src)

SpecUnterminated == InitUnterminated /\ [][Next]_vars

\* SpecNumber: every text of at most MaxNumLen characters over NumberAlphabet
MaxNumLen == 4

NumberAlphabet == {"3", "a", "x", "e", "_", "$", ".", "+", " "}

InitNumber == \E src \in SeqsUpTo(NumberAlphabet, MaxNumLen) : Start(src)

SpecNumber == InitNumber /\ [][Next]_vars

\* SpecOperator: every text of at most MaxOpLen characters over ShiftAlphabet and
\* every text of at most MaxOtherLen characters over OtherAlphabet
MaxOpLen == 4

MaxOtherLen == 3

ShiftAlphabet == {">", "<", "=", "+", "-", "&", "|", "!", "a"}

OtherAlphabet == {"*", "/", "^", "%", "=", "~", "?", "a"}

InitOperator ==
  \/ \E src \in SeqsUpTo(ShiftAlphabet, MaxOpLen) : Start(src)
  \/ \E src \in SeqsUpTo(OtherAlphabet, MaxOtherLen) : Start(src)

SpecOperator == InitOperator /\ [][Next]_vars

\* SpecLines: every text of at most MaxLineLen characters over LineAlphabet
MaxLineLen == 5

LineAlphabet == {"\r", "\n", "a", "/", "*"}

InitLines == \E src \in SeqsUpTo(LineAlphabet, MaxLineLen) : Start(src)

SpecLines == InitLines /\ [][Next]_vars

\* SpecTerm: every list of at most MaxTermWords words of TermWords and the lists of
\* LoopWords, each as a text and as a token list, run by the one thread of the
\* program, which never stops between two steps: weak fairness of each action.  For
\* WalkStep and ParseLoop weak fairness is written out, WF_v(A) being
\* []<>~ENABLED <<A>>_v \/ []<><<A>>_v, with the guard of the action for ENABLED
MaxTermWords == 3

TermWords ==
  {<<"a">>, <<"(">>, <<")">>, <<"{">>, <<"}">>, <<"[">>, <<"]">>, <<",">>, <<";">>,
   <<"+">>, <<".">>, <<"v", "a", "r">>}

LoopWords ==
  { <<<<"f", "u", "n", "c", "t", "i", "o", "n">>, <<"f">>, <<"(">>, <<"a">>, <<",">>,
      <<"b">>, <<")">>, <<"{">>, <<"a">>, <<";">>, <<"b">>, <<"}">>>>,
    <<<<"a">>, <<"=">>, <<"{">>, <<"a">>, <<":">>, <<"1">>, <<",">>, <<"b">>, <<":">>,
      <<"1">>, <<"}">>>>,
    <<<<"v", "a", "r">>, <<"a">>, <<"=">>, <<"1">>, <<",">>, <<"b">>, <<";">>, <<"a">>>>,
    <<<<"a">>, <<"(">>, <<"a">>, <<",">>, <<"b">>, <<")">>, <<"[">>, <<"a">>, <<"]">>,
      <<".">>, <<"a">>>>,
    <<<<"[">>, <<"a">>, <<",">>, <<",">>, <<"b">>, <<"]">>>>,
    <<<<"a">>, <<"|", "|">>, <<"a">>, <<"+">>, <<"a">>, <<"*">>, <<"a">>, <<"<">>, <<"a">>>>,
    <<<<"{">>, <<"a">>, <<";">>, <<"{">>, <<"}">>, <<"a">>, <<"}">>, <<"a">>>> }

InitTerm ==
  \/ \E ws \in SeqsUpTo(TermWords, MaxTermWords) : StartWords(ws)
  \/ \E ws \in LoopWords : StartWords(ws)

WalkFair == []<>(pc # "walk") \/ []<><<WalkStep>>_vars

ParseLoopFair ==
  []<>(~(pc = "parse" /\ peek(Here).kind # "EOF")) \/ []<><<ParseLoop>>_vars

SpecTerm ==
  /\ InitTerm /\ [][Next]_vars
  /\ WalkFair /\ WF_vars(ParseEntry) /\ ParseLoopFair /\ WF_vars(ParseReturn)

\* SpecAssign: `a OP b OP ... ;` with at most MaxAssigns assignment operators, and the
\* text of parses_assignment_expression (tests/es1_statements.rs)
MaxAssigns == 2

AssignWords ==
  {<<"=">>, <<"+", "=">>, <<"-", "=">>, <<"*", "=">>, <<"/", "=">>, <<"%", "=">>,
   <<"<", "<", "=">>, <<">", ">", "=">>, <<">", ">", ">", "=">>, <<"&", "=">>,
   <<"^", "=">>, <<"|", "=">>}

AssignNames == <<"a", "b", "c", "d", "e">>

RECURSIVE AssignChainOf(_, _)
\* the names from the i-th on, with the operators ops between them
AssignChainOf(ops, i) ==
  IF ops = <<>> THEN <<<<AssignNames[i]>>>>
                ELSE <<<<AssignNames[i]>>, Head(ops)>> \o AssignChainOf(Tail(ops), i + 1)

AssignChainWords ==
  {AssignChainOf(ops, 1) \o <<<<";">>>> : ops \in SeqsUpTo(AssignWords, MaxAssigns)}

AssignText == <<"a", " ", "+", "=", " ", "1", ";">>

InitAssign ==
  \/ \E ws \in AssignChainWords : StartWords(ws)
  \/ Start(AssignText)

SpecAssign == InitAssign /\ [][Next]_vars

\* SpecVar: `var DECL , ... , DECL ;` with at most MaxDecls declarations, each a name
\* with or without `= name`, the text of parses_var_statement (tests/es1_statements.rs)
\* and the text `var a;`
VarDeclWords ==
  {<<<<"i">>>>, <<<<"i">>, <<"=">>, <<"a">>>>, <<<<"j">>>>, <<<<"j">>, <<"=">>, <<"b">>>>}

VarStatementWords ==
  {<<<<"v", "a", "r">>>> \o DeclList(ds) \o <<<<";">>>> :
     ds \in SeqsUpTo(VarDeclWords, MaxDecls) \ {<<>>}}

VarText == <<"v", "a", "r", " ", "a", " ", "=", " ", "1", ";">>

VarBareText == <<"v", "a", "r", " ", "a", ";">>

InitVar ==
  \/ \E ws \in VarStatementWords : StartWords(ws)
  \/ Start(VarText)
  \/ Start(VarBareText)

SpecVar == InitVar /\ [][Next]_vars

\* SpecIn: `for ( INIT ; [a in o] ; [b in o] ) BODY [d in o ;]` and
\* `for ( HEAD in o ) BODY [d in o ;]` with BODY `;` or `c in o ;`, and heads whose
\* init holds an `in`
InWords(x) == <<<<x>>, <<"i", "n">>, <<"o">>>>

ForInitWords ==
  {<<>>, <<<<"i">>>>, <<<<"i">>, <<"=">>, <<"a">>>>, <<<<"v", "a", "r">>, <<"i">>>>,
   <<<<"v", "a", "r">>, <<"i">>, <<"=">>, <<"a">>>>, <<<<"(">>, <<"i">>, <<")">>>>}

ForInHeadWords ==
  {<<<<"i">>>>, <<<<"v", "a", "r">>, <<"i">>>>, <<<<"v", "a", "r">>, <<"i">>, <<"=">>, <<"a">>>>}

ForBodyWords == {<<<<";">>>>, InWords("c") \o <<<<";">>>>}

ForAfterWords == {<<>>, InWords("d") \o <<<<";">>>>}

CForWords ==
  {<<<<"f", "o", "r">>, <<"(">>>> \o init \o <<<<";">>>> \o cond \o <<<<";">>>> \o update
       \o <<<<")">>>> \o stmt \o after :
     init \in ForInitWords, cond \in {<<>>, InWords("a")}, update \in {<<>>, InWords("b")},
     stmt \in ForBodyWords, after \in ForAfterWords}

ForInWords ==
  {<<<<"f", "o", "r">>, <<"(">>>> \o head \o <<<<"i", "n">>, <<"o">>, <<")">>>> \o stmt \o after :
     head \in ForInHeadWords, stmt \in ForBodyWords, after \in ForAfterWords}

InHeadWords ==
  {<<<<"f", "o", "r">>, <<"(">>, <<"(">>>> \o InWords("a") \o <<<<")">>, <<";">>, <<";">>, <<")">>, <<";">>>>,
   <<<<"f", "o", "r">>, <<"(">>, <<"i">>, <<"=">>>> \o InWords("a") \o <<<<")">>, <<";">>>>,
   InWords("a") \o <<<<"<">>>> \o InWords("b") \o <<<<";">>>>}

InitIn == \E ws \in CForWords \cup ForInWords \cup InHeadWords : StartWords(ws)

SpecIn == InitIn /\ [][Next]_vars

\* SpecTrunc: the word lists of ProgramWords cut after each of their words, so that EOF
\* comes at every place of every construct, and every list of at most MaxTermWords
\* words of TermWords
ProgramWords ==
  {
    <<<<"f", "u", "n", "c", "t", "i", "o", "n">>, <<"f">>, <<"(">>, <<"a">>, <<",">>,
      <<"b">>, <<")">>, <<"{">>, <<"r", "e", "t", "u", "r", "n">>, <<"a">>, <<";">>,
      <<"}">>>>,
    <<<<"x">>, <<"=">>, <<"{">>, <<"a">>, <<":">>, <<"1">>, <<",">>, <<"'", "b", "'">>,
      <<":">>, <<"2">>, <<",">>, <<"3">>, <<":">>, <<"a">>, <<"}">>, <<";">>>>,
    <<<<"f", "o", "r">>, <<"(">>, <<"v", "a", "r">>, <<"i">>, <<"=">>, <<"0">>, <<",">>,
      <<"j">>, <<";">>, <<"i">>, <<"<">>, <<"1">>, <<";">>, <<"i">>, <<"+", "+">>, <<")">>,
      <<"{">>, <<"c", "o", "n", "t", "i", "n", "u", "e">>, <<";">>, <<"}">>>>,
    <<<<"f", "o", "r">>, <<"(">>, <<"i">>, <<"i", "n">>, <<"o">>, <<")">>,
      <<"b", "r", "e", "a", "k">>, <<";">>>>,
    <<<<"w", "h", "i", "l", "e">>, <<"(">>, <<"a">>, <<")">>, <<"i", "f">>, <<"(">>,
      <<"b">>, <<")">>, <<"c">>, <<";">>, <<"e", "l", "s", "e">>, <<"d">>, <<";">>>>,
    <<<<"w", "i", "t", "h">>, <<"(">>, <<"a">>, <<")">>, <<"{">>, <<"b">>, <<".">>,
      <<"c">>, <<"[">>, <<"d">>, <<"]">>, <<"(">>, <<"e">>, <<",">>, <<"f">>, <<")">>,
      <<";">>, <<"}">>>>,
    <<<<"x">>, <<"=">>, <<"n", "e", "w">>, <<"f">>, <<"(">>, <<"a">>, <<")">>, <<".">>,
      <<"b">>, <<"?">>, <<"-">>, <<"a">>, <<":">>, <<"!">>, <<"b">>, <<";">>>>,
    <<<<"x">>, <<"=">>, <<"f", "u", "n", "c", "t", "i", "o", "n">>, <<"(">>, <<"a">>,
      <<")">>, <<"{">>, <<"}">>, <<";">>>>,
    <<<<"v", "a", "r">>, <<"a">>, <<"=">>, <<"[">>, <<"1">>, <<",">>, <<",">>, <<"2">>,
      <<"]">>, <<",">>, <<"b">>, <<"=">>, <<"(">>, <<"a">>, <<",">>, <<"b">>, <<")">>,
      <<";">>>>,
    <<<<"d", "e", "l", "e", "t", "e">>, <<"a">>, <<",">>, <<"t", "y", "p", "e", "o", "f">>,
      <<"b">>, <<",">>, <<"v", "o", "i", "d">>, <<"c">>, <<",">>, <<"+", "+">>, <<"a">>,
      <<",">>, <<"a">>, <<"-", "-">>, <<";">>>> }

TruncWords == UNION {{SubSeq(ws, 1, n) : n \in 0..Len(ws)} : ws \in ProgramWords}

InitTrunc == \E ws \in TruncWords \cup SeqsUpTo(TermWords, MaxTermWords) : StartWords(ws)

SpecTrunc == InitTrunc /\ [][Next]_vars

(***************************************************************************)
(* Properties                                                              *)
(***************************************************************************)
\* the token at index i (from 0) of the parser's tokens, clamped like peek
TokenAt(i) == tokens[Min(i, Len(tokens) - 1) + 1]

\* the condition under which a semicolon is inserted before the token k
Inserts(k) == k.kind = "CloseCurly" \/ k.kind = "EOF" \/ k.line_terminator_before

\* Lexer::walk has returned
Walked == pc \notin {"walk", "lex_error"}

\* C1: when lexing does not fail, the token list Lexer::walk returns has a
\* last token of kind EOF and no other token of kind EOF.
C1_EndsWithOneEOF ==
  Walked =>
    /\ output # <<>>
    /\ output[Len(output)].kind = "EOF"
    /\ \A i \in 1..(Len(output) - 1) : output[i].kind # "EOF"

\* a text with a NUL character before its end has been lexed to three tokens
C1_Witness ==
  /\ pc = "lexed"
  /\ Len(output) = 3
  /\ \E i \in 1..(Len(source) - 1) : source[i] = NUL

\* the statements that end with consume_semicolon_or_insert
AsiStatements == {"Var", "Expr", "Continue", "Break", "Return"}

\* C2: a var, expression, continue, break or return statement is accepted
\* exactly when the token after it is `;`, which is then consumed, or is
\* `}` or EOF or has a line terminator before it, with nothing consumed;
\* otherwise the parse fails with the error "expected ';'".
C2_SemicolonInsertion ==
  /\ (pc \in {"parse", "done"} /\ body # <<>> /\ body[Len(body)].t \in AsiStatements) =>
       \/ TokenAt(pos - 1).kind = "SemiColon"
       \/ Inserts(TokenAt(pos)) /\ TokenAt(pos).kind # "SemiColon"
  /\ (pc = "parse_error" /\ err.msg = "expected ';'") =>
       /\ TokenAt(err.at).kind # "SemiColon"
       /\ ~Inserts(TokenAt(err.at))
  /\ pc # "panic"

\* `break` then a line terminator then `a`: Break was accepted with nothing
\* consumed after it, and `a` is still to be parsed
C2_Witness ==
  /\ pc = "parse"
  /\ body = <<[t |-> "Break"]>>
  /\ pos = 1
  /\ TokenAt(pos).kind = "Identifier"
  /\ TokenAt(pos).line_terminator_before

\* one step of the parse loop at a `return`
C3_ReturnStep ==
  (pc = "parse" /\ TokenAt(pos).kind = "Return") =>
    LET after == TokenAt(pos + 1)
        expr == parse_expression(advance(Here))
    IN  IF after.kind = "SemiColon" \/ Inserts(after)
          THEN /\ pc' = "parse"
               /\ body' = Append(body, [t |-> "Return", arg |-> None])
               /\ pos' = IF after.kind = "SemiColon" THEN pos + 2 ELSE pos + 1
          ELSE /\ pc' \in {"parse", "parse_error"}
               /\ pc' = "parse" =>
                    body' = Append(body, [t |-> "Return", arg |-> Some(expr.v)])

\* C3: when the token after `return` has a line terminator before it, or is
\* `;`, `}` or EOF, the statement is Return(None) and the tokens after the
\* line terminator are left to be parsed as the next statement; otherwise
\* the statement is Return(Some(expr)).  `return\n1;` yields Return(None)
\* followed by the expression statement `1;`.
C3_ReturnNewline ==
  /\ [][C3_ReturnStep]_vars
  /\ []((source = ReturnAsiText /\ pc = "done") =>
          /\ Len(body) = 2
          /\ body[1] = [t |-> "Return", arg |-> None]
          /\ body[2].t = "Expr"
          /\ body[2].expr = parse_primary_expression([Here EXCEPT !.pos = 1]).v)

\* `return\n1;` has been parsed to two statements, the first Return(None)
C3_Witness ==
  /\ source = ReturnAsiText
  /\ pc = "done"
  /\ Len(body) = 2
  /\ body[1] = [t |-> "Return", arg |-> None]
  /\ body[2].expr.t = "Literal"

(***************************************************************************)
(* Expressions: what the claims expect of `a op1 b op2 c ;`, told from the *)
(* token list alone                                                        *)
(***************************************************************************)
\* the tier of a binary operator token, 1 (logical-or) to 10 (multiplicative); 0 for
\* any other token
Tier(kind) ==
  CASE kind = "Or" -> 1
    [] kind = "And" -> 2
    [] kind = "Bar" -> 3
    [] kind = "Caret" -> 4
    [] kind = "Ampersand" -> 5
    [] kind \in {"DoubleEqual", "NotEqual"} -> 6
    [] kind \in {"LessThan", "GreaterThan", "GreaterThanEqual", "LessThanEqual", "In"} -> 7
    [] kind \in {"LeftShift", "RightShift", "TripleGreaterThan"} -> 8
    [] kind \in {"Plus", "Minus"} -> 9
    [] kind \in {"Asterisk", "Slash", "Modulo"} -> 10
    [] OTHER -> 0

\* the ast::BinOp of a binary operator token
BinOpOf(kind) ==
  CASE kind = "Or" -> "Or"
    [] kind = "And" -> "And"
    [] kind = "Bar" -> "BitOr"
    [] kind = "Caret" -> "BitXor"
    [] kind = "Ampersand" -> "BitAnd"
    [] kind = "DoubleEqual" -> "Eq"
    [] kind = "NotEqual" -> "Ne"
    [] kind = "LessThan" -> "Lt"
    [] kind = "GreaterThan" -> "Gt"
    [] kind = "GreaterThanEqual" -> "Ge"
    [] kind = "LessThanEqual" -> "Le"
    [] kind = "In" -> "In"
    [] kind = "LeftShift" -> "Shl"
    [] kind = "RightShift" -> "Shr"
    [] kind = "TripleGreaterThan" -> "UShr"
    [] kind = "Plus" -> "Add"
    [] kind = "Minus" -> "Sub"
    [] kind = "Asterisk" -> "Mul"
    [] kind = "Slash" -> "Div"
    [] kind = "Modulo" -> "Mod"

IsOperand(tok) == tok.kind \in {"Identifier", "Number"}

\* the expression an operand token stands for
OperandOf(tok) ==
  IF tok.kind = "Number"
    THEN Literal([t |-> "Number", value |-> ParseF64(tok.content).val])
    ELSE Identifier(tok.content)

\* the token list is `a op1 b op2 c ;`
IsChain ==
  /\ Len(tokens) = 7
  /\ IsOperand(tokens[1]) /\ Tier(tokens[2].kind) > 0
  /\ IsOperand(tokens[3]) /\ Tier(tokens[4].kind) > 0
  /\ IsOperand(tokens[5])
  /\ tokens[6].kind = "SemiColon" /\ tokens[7].kind = "EOF"

\* Parser::parse has returned or the process has exited in it
Parsed == pc \in {"done", "parse_error", "panic"}

ExprStmt(e) == [t |-> "Expr", expr |-> e]

\* C4: when op2 is of a tighter tier than op1, `a op1 b op2 c ;` is accepted and
\* its tree is Binary(op1, a, Binary(op2, b, c))
C4_Precedence ==
  (IsChain /\ Tier(tokens[4].kind) > Tier(tokens[2].kind) /\ Parsed) =>
    /\ pc = "done"
    /\ body = <<ExprStmt(Binary(BinOpOf(tokens[2].kind), OperandOf(tokens[1]),
                               Binary(BinOpOf(tokens[4].kind), OperandOf(tokens[3]),
                                      OperandOf(tokens[5]))))>>

\* `1 + 2 * 3;` has been lexed and parsed to Binary(Add, 1, Binary(Mul, 2, 3))
C4_Witness ==
  /\ source = PrecedenceText
  /\ pc = "done"
  /\ IsChain
  /\ Len(body) = 1
  /\ body[1].expr.op = "Add"
  /\ body[1].expr.left = OperandOf(tokens[1])
  /\ body[1].expr.right.op = "Mul"

\* C5: when op1 and op2 are of the same tier, `a op1 b op2 c ;` is accepted and its
\* tree is Binary(op2, Binary(op1, a, b), c)
C5_LeftAssociative ==
  (IsChain /\ Tier(tokens[4].kind) = Tier(tokens[2].kind) /\ Parsed) =>
    /\ pc = "done"
    /\ body = <<ExprStmt(Binary(BinOpOf(tokens[4].kind),
                               Binary(BinOpOf(tokens[2].kind), OperandOf(tokens[1]),
                                      OperandOf(tokens[3])),
                               OperandOf(tokens[5])))>>

\* `1 - 2 - 3;` has been lexed and parsed to Binary(Sub, Binary(Sub, 1, 2), 3)
C5_Witness ==
  /\ source = AssociativityText
  /\ pc = "done"
  /\ IsChain
  /\ Len(body) = 1
  /\ body[1].expr.op = "Sub"
  /\ body[1].expr.left.op = "Sub"
  /\ body[1].expr.right = OperandOf(tokens[5])

\* the kinds of the tokens before EOF
Kinds == [i \in 1..(Len(tokens) - 1) |-> tokens[i].kind]

\* C9: `new F(a);` yields New{callee: Identifier("F"), args: Sequence([Identifier("a")])}:
\* the parenthesised list after the callee is the argument list of the `new`
C9_NewCallee ==
  (/\ Kinds = <<"New", "Identifier", "OpenParen", "Identifier", "CloseParen", "SemiColon">>
   /\ Parsed) =>
    /\ pc = "done"
    /\ body = <<ExprStmt([t |-> "New", callee |-> Identifier(tokens[2].content),
                         args |-> Sequence(<<Identifier(tokens[4].content)>>)])>>

\* C10: `[1,]` is accepted and yields Array([1, Undefined]): the trailing comma before
\* `]` contributes one Undefined element
C10_TrailingComma ==
  (/\ Kinds = <<"OpenBracket", "Number", "Comma", "CloseBracket", "SemiColon">>
   /\ Parsed) =>
    /\ pc = "done"
    /\ body = <<ExprStmt(Literal([t |-> "Array",
                                 elements |-> <<OperandOf(tokens[2]), Undefined>>]))>>

(***************************************************************************)
(* `for` statements: what the claims expect of a program that is one `for` *)
(* statement, told from the token list and from what the parsing functions *)
(* return on the parts of its head                                         *)
(***************************************************************************)
\* the token list starts `for (`
ForHead == Len(tokens) >= 3 /\ tokens[1].kind = "For" /\ tokens[2].kind = "OpenParen"

\* a parser state at token i with allow_in = allow
At(i, allow) ==
  [pos |-> i, allow_in |-> allow, st |-> "ok", at |-> 0 - 1, msg |-> "", v |-> Nil]

\* the first statement has been parsed, or the process has exited in it
FirstParsed == Parsed \/ (pc = "parse" /\ body # <<>>)

\* the ForIn statement of the name, with the expression parsed after the `in` at token i
\* and the statement after its ')'
ForInAfter(name, i) ==
  [t |-> "ForIn", var |-> name,
   expr |-> parse_expression(At(i + 1, TRUE)).v,
   body |-> parse_statement(At(parse_expression(At(i + 1, TRUE)).pos + 1, TRUE)).v]

\* after the `in` at token i stand an expression, ')' and a statement
WellFormedAfter(i) ==
  /\ Ok(parse_expression(At(i + 1, TRUE)))
  /\ TokenAt(parse_expression(At(i + 1, TRUE)).pos).kind = "CloseParen"
  /\ Ok(parse_statement(At(parse_expression(At(i + 1, TRUE)).pos + 1, TRUE)))

\* C6, on the init expression first of a head without `var`
C6_OnFirst(first) ==
  (Ok(first) /\ TokenAt(first.pos).kind = "In") =>
    IF first.v.t = "Identifier"
      THEN WellFormedAfter(first.pos) =>
             /\ body # <<>>
             /\ body[1] = ForInAfter(first.v.name, first.pos)
      ELSE /\ pc = "parse_error"
           /\ body = <<>>
           /\ err.msg = "expected identifier before 'in' in 'for...in'"

\* C6: in a `for` head without `var` whose init expression, parsed with `in`
\* suppressed, is followed by `in`, a bare Identifier gives ForIn with its name, the
\* expression after `in` and the following statement, and any other expression is
\* an error; `for (i in obj) ;` gives ForIn{var: "i", expr: Identifier("obj"),
\* body: Empty}
C6_ForInExpression ==
  /\ (ForHead /\ tokens[3].kind \notin {"Var", "SemiColon"} /\ FirstParsed) =>
        C6_OnFirst(parse_expression(At(2, FALSE)))
  /\ (source = ForInText /\ Parsed) =>
        /\ pc = "done"
        /\ body = <<[t |-> "ForIn", var |-> <<"i">>, expr |-> Identifier(<<"o", "b", "j">>),
                     body |-> [t |-> "Empty"]]>>

\* `for (i in obj) ;` has been lexed and parsed to a ForIn
C6_Witness ==
  /\ source = ForInText
  /\ pc = "done"
  /\ tokens[3].kind = "Identifier" /\ tokens[4].kind = "In"
  /\ Len(body) = 1
  /\ body[1].t = "ForIn"

\* C7, on the declaration list decls of a `for (var` head
C7_OnList(decls) ==
  (Ok(decls) /\ TokenAt(decls.pos).kind = "In") =>
    IF Len(decls.v) = 1
      THEN WellFormedAfter(decls.pos) =>
             /\ body # <<>>
             /\ body[1] = ForInAfter(tokens[4].content, decls.pos)
      ELSE /\ pc = "parse_error"
           /\ body = <<>>
           /\ err.msg = "expected a single variable in 'for...in'"

\* C7: in a `for (var` head whose declaration list is followed by `in`, a list of
\* one entry gives ForIn with that entry's name, with or without an initializer,
\* which is not in the node, and a list of more entries is an error;
\* `for (var i = 0 in obj) ;` gives ForIn{var: "i", expr: Identifier("obj"), body: Empty}
C7_ForInVar ==
  /\ (ForHead /\ tokens[3].kind = "Var" /\ FirstParsed) =>
        C7_OnList(parse_variable_declaration_list(At(3, FALSE)))
  /\ (source = ForInVarText /\ Parsed) =>
        /\ pc = "done"
        /\ body = <<[t |-> "ForIn", var |-> <<"i">>, expr |-> Identifier(<<"o", "b", "j">>),
                     body |-> [t |-> "Empty"]]>>

\* `for (var i = 0 in obj) ;` has been lexed and parsed to a ForIn
C7_Witness ==
  /\ source = ForInVarText
  /\ pc = "done"
  /\ tokens[3].kind = "Var" /\ tokens[5].kind = "Equal" /\ tokens[7].kind = "In"
  /\ Len(body) = 1
  /\ body[1].t = "ForIn"

\* the tokens of the head of a program `for ( head ) ;`: those between '(' and the
\* last ')'
HeadSemiColons == {i \in 3..(Len(tokens) - 3) : tokens[i].kind = "SemiColon"}

\* the program is `for ( init ; cond ; update ) ;`
IsClassicFor ==
  /\ ForHead
  /\ Len(tokens) >= 7
  /\ tokens[Len(tokens) - 2].kind = "CloseParen"
  /\ tokens[Len(tokens) - 1].kind = "SemiColon"
  /\ Cardinality(HeadSemiColons) = 2

FirstSemiColon == CHOOSE i \in HeadSemiColons : \A j \in HeadSemiColons : i <= j

SecondSemiColon == CHOOSE i \in HeadSemiColons : \A j \in HeadSemiColons : j <= i

\* C8: `for (init; cond; update) ;` is a For node whose init is None exactly when
\* nothing stands before the first `;`, ForInit::Var for a `var` list and ForInit::Expr
\* otherwise, whose cond is None exactly when nothing stands between the two `;` and
\* whose update is None exactly when nothing stands between the second `;` and `)`
C8_ClassicFor ==
  (IsClassicFor /\ Parsed) =>
    /\ pc = "done"
    /\ Len(body) = 1
    /\ body[1].t = "For"
    /\ body[1].init = None <=> FirstSemiColon = 3
    /\ body[1].init # None =>
          body[1].init.v.t = IF tokens[3].kind = "Var" THEN "Var" ELSE "Expr"
    /\ body[1].cond = None <=> SecondSemiColon = FirstSemiColon + 1
    /\ body[1].update = None <=> SecondSemiColon = Len(tokens) - 3
    /\ body[1].body = [t |-> "Empty"]

\* `for (i = 0; i < 1; i++) ;` has been lexed and parsed to a For with all three present
C8_Witness ==
  /\ source = ForText
  /\ pc = "done"
  /\ IsClassicFor
  /\ Len(body) = 1
  /\ body[1].t = "For"
  /\ body[1].init # None /\ body[1].cond # None /\ body[1].update # None

(***************************************************************************)
(* Object literals: what the claims expect of `x = { entries } ;`, told    *)
(* from the token list alone                                               *)
(***************************************************************************)
\* the token list starts `x = {`
IsObjectProgram ==
  /\ Len(tokens) >= 6
  /\ tokens[1].kind = "Identifier" /\ tokens[2].kind = "Equal"
  /\ tokens[3].kind = "OpenCurly"

\* the ast::PropertyKey of a key token
KeyOf(tok) ==
  CASE tok.kind = "Identifier" -> [t |-> "Identifier", name |-> tok.content]
    [] tok.kind = "String" ->
          [t |-> "String", value |-> SubSeq(tok.content, 2, Len(tok.content) - 1)]
    [] tok.kind = "Number" -> [t |-> "Number", value |-> ParseF64(tok.content).val]

RECURSIVE EntriesFrom(_, _)
\* what the entries from token i on (from 0) are, after the entries acc: the list of
\* (key, value) in source order when every entry is a key token, `:` and an operand;
\* "error" at a key token of another kind or a key without `:`
EntriesFrom(i, acc) ==
  CASE TokenAt(i).kind \notin {"Identifier", "String", "Number"} -> [r |-> "error"]
    [] TokenAt(i + 1).kind # "DoubleDot" -> [r |-> "error"]
    [] ~IsOperand(TokenAt(i + 2)) -> [r |-> "other"]
    [] TokenAt(i + 3).kind = "Comma" ->
          EntriesFrom(i + 4, Append(acc, <<KeyOf(TokenAt(i)), OperandOf(TokenAt(i + 2))>>))
    [] TokenAt(i + 3).kind = "CloseCurly" /\ TokenAt(i + 4).kind = "SemiColon"
         /\ TokenAt(i + 5).kind = "EOF" ->
          [r |-> "object",
           props |-> Append(acc, <<KeyOf(TokenAt(i)), OperandOf(TokenAt(i + 2))>>)]
    [] OTHER -> [r |-> "other"]

\* the entries of the object literal of `x = { entries } ;`
Entries ==
  IF tokens[4].kind = "CloseCurly"
    THEN IF tokens[5].kind = "SemiColon" THEN [r |-> "object", props |-> <<>>]
         ELSE [r |-> "other"]
    ELSE EntriesFrom(3, <<>>)

Ended == Parsed \/ pc = "lex_error"

\* C12: the text `{a: 1, "b": 2, 3: 4};` yields as first statement the expression
\* statement of an Object literal with 3 entries, and so does its token list: a
\* statement that starts with `{` and a property list is an object literal
C12_ObjectStatement ==
  /\ (source = ObjectText /\ Ended) =>
        /\ pc = "done"
        /\ body # <<>>
        /\ body[1].t = "Expr"
        /\ body[1].expr.t = "Literal"
        /\ body[1].expr.lit.t = "Object"
        /\ Len(body[1].expr.lit.props) = 3
  /\ (Len(tokens) >= 5 /\ tokens[1].kind = "OpenCurly" /\ tokens[2].kind = "Identifier"
        /\ tokens[3].kind = "DoubleDot" /\ IsOperand(tokens[4])
        /\ tokens[5].kind \in {"Comma", "CloseCurly"} /\ Parsed) =>
        /\ body # <<>>
        /\ body[1].t = "Expr"
        /\ body[1].expr.t = "Literal"
        /\ body[1].expr.lit.t = "Object"

\* C13: the text `function(a, b) { return a; };` yields as first statement the
\* expression statement of an Expr::Function with name None, and so does every
\* program that starts with `function (`: it is an anonymous function expression
C13_FunctionExpressionStatement ==
  /\ (source = FunctionText /\ Ended) =>
        /\ pc = "done"
        /\ body # <<>>
        /\ body[1].t = "Expr"
        /\ body[1].expr.t = "Function"
        /\ body[1].expr.f.name = None
  /\ (Len(tokens) >= 2 /\ tokens[1].kind = "Function" /\ tokens[2].kind = "OpenParen"
        /\ Parsed) =>
        /\ body # <<>>
        /\ body[1].t = "Expr"
        /\ body[1].expr.t = "Function"
        /\ body[1].expr.f.name = None

(***************************************************************************)
(* Suffix chains: what the claims expect of `obj suffix ... suffix ;`,     *)
(* told from the token list alone                                          *)
(***************************************************************************)
RECURSIVE Suffixed(_, _)
\* the expression e followed by the suffixes from token i on (from 0), each suffix
\* wrapping the expression before it; Nil when the tokens from i on are not a list of
\* suffixes `. name`, `[ operand ]`, `( )`, `( operand )` ended by `;` and EOF
Suffixed(e, i) ==
  CASE TokenAt(i).kind = "Dot" /\ TokenAt(i + 1).kind = "Identifier" ->
          Suffixed([t |-> "Member", object |-> e, property |-> TokenAt(i + 1).content], i + 2)
    [] TokenAt(i).kind = "OpenBracket" /\ IsOperand(TokenAt(i + 1))
         /\ TokenAt(i + 2).kind = "CloseBracket" ->
          Suffixed([t |-> "Index", object |-> e, index |-> OperandOf(TokenAt(i + 1))], i + 3)
    [] TokenAt(i).kind = "OpenParen" /\ TokenAt(i + 1).kind = "CloseParen" ->
          Suffixed([t |-> "Call", callee |-> e, args |-> Sequence(<<>>)], i + 2)
    [] TokenAt(i).kind = "OpenParen" /\ IsOperand(TokenAt(i + 1))
         /\ TokenAt(i + 2).kind = "CloseParen" ->
          Suffixed([t |-> "Call", callee |-> e,
                    args |-> Sequence(<<OperandOf(TokenAt(i + 1))>>)], i + 3)
    [] TokenAt(i).kind = "SemiColon" /\ i + 2 = Len(tokens) -> e
    [] OTHER -> Nil

\* the token list is `name suffix ... suffix ;`
IsSuffixChain ==
  /\ Len(tokens) >= 3
  /\ tokens[1].kind = "Identifier"
  /\ Suffixed(Identifier(tokens[1].content), 1) # Nil

FirstMember == parse_member_expression(At(0, TRUE))

\* the token after it
AfterFirstMember == TokenAt(FirstMember.pos)

\* the program starts with a member expression followed by `++` or `--`
IsPostfixProgram ==
  /\ Len(tokens) >= 3
  /\ tokens[1].kind = "Identifier"
  /\ Ok(FirstMember)
  /\ AfterFirstMember.kind \in {"DoublePlus", "DoubleMinus"}

\* the token ends a statement
EndsStatement(tok) ==
  tok.kind \in {"SemiColon", "CloseCurly", "EOF"} \/ tok.line_terminator_before

\* C15: a `++` or `--` with line_terminator_before is not consumed as the postfix
\* operator of the member expression before it: the first statement is that expression
\* alone and the next statement starts at the `++` or `--`; without a line terminator
\* before it, it gives Update{prefix: false} of the member expression; `a--;` is
\* Update{op: Dec, prefix: false, argument: a}
C15_PostfixNewline ==
  /\ (IsPostfixProgram /\ AfterFirstMember.line_terminator_before /\ FirstParsed) =>
        /\ body # <<>>
        /\ body[1] = ExprStmt(FirstMember.v)
        /\ (pc = "parse" /\ Len(body) = 1) => pos = FirstMember.pos
  /\ (IsPostfixProgram /\ ~AfterFirstMember.line_terminator_before
        /\ EndsStatement(TokenAt(FirstMember.pos + 1)) /\ FirstParsed) =>
        /\ body # <<>>
        /\ body[1] = ExprStmt(Update(IF AfterFirstMember.kind = "DoublePlus"
                                       THEN "Inc" ELSE "Dec",
                                     FALSE, FirstMember.v))
  /\ (source = UpdatePostfixText /\ Ended) =>
        /\ pc = "done"
        /\ body = <<ExprStmt(Update("Dec", FALSE, Identifier(<<"a">>)))>>

\* `a`, a line terminator, `++ b ;` has been parsed: the statement `a`, then the
\* prefix increment of b
C15_Witness ==
  /\ IsPostfixProgram
  /\ AfterFirstMember.line_terminator_before
  /\ AfterFirstMember.kind = "DoublePlus"
  /\ pc = "done"
  /\ Len(body) = 2
  /\ body[1] = ExprStmt(Identifier(<<"a">>))
  /\ body[2] = ExprStmt(Update("Inc", TRUE, Identifier(<<"b">>)))

(***************************************************************************)
(* Lexer: what the claims expect of the tokens, told from the source text  *)
(***************************************************************************)
\* a step of Lexer::walk that pushes a token: the token's line_terminator_before is
\* true exactly when a line terminator stands in the text between the place the
\* lexer was at and the start of the token
C16_Step ==
  (pc = "walk" /\ Len(output') = Len(output) + 1) =>
    LET tok == output'[Len(output')]
        start == IF tok.kind = "EOF" THEN Len(source) ELSE row' - Len(tok.content)
    IN  tok.line_terminator_before <=>
          \E i \in (row + 1)..start : source[i] \in {"\r", "\n"}

\* C16: for every token the lexer returns, EOF included, line_terminator_before is
\* true if and only if the text skipped before it (whitespace, line comments, block
\* comments) holds at least one line terminator
C16_LineTerminatorBefore == [][C16_Step]_vars

RECURSIVE StringEnd(_)
\* for a text that starts with a quote: the index (from 1), at or after i, of the first
\* occurrence of that quote that is not the second character of a backslash pair; 0
\* when there is none
StringEnd(i) ==
  CASE i > Len(source) -> 0
    [] source[i] = "\\" -> StringEnd(i + 2)
    [] source[i] = source[1] -> i
    [] OTHER -> StringEnd(i + 1)

\* the text starts with a string literal that is closed
StartsWithString ==
  /\ source # <<>>
  /\ source[1] \in {"'", "\""}
  /\ StringEnd(2) > 0

\* C17: a string literal ends at the first unescaped occurrence of the quote that
\* opened it, its token is the text from quote to quote, and its Literal::String is
\* the characters between the two quotes, backslash pairs kept as they are; 'Hi'
\* gives Hi
C17_StringLiteral ==
  /\ (StartsWithString /\ output # <<>>) =>
        /\ output[1].kind = "String"
        /\ output[1].content = SubSeq(source, 1, StringEnd(2))
  /\ (StartsWithString /\ Parsed /\ body # <<>>) =>
        body[1] = ExprStmt(Literal([t |-> "String",
                                    value |-> SubSeq(source, 2, StringEnd(2) - 1)]))
  /\ (StartsWithString /\ Parsed /\ StringEnd(2) + 1 >= Len(source)
        /\ (StringEnd(2) < Len(source) => source[Len(source)] = ";")) =>
        /\ pc = "done"
        /\ Len(body) = 1
  /\ (source = HiText /\ Ended) =>
        /\ pc = "done"
        /\ body = <<ExprStmt(Literal([t |-> "String", value |-> <<"H", "i">>]))>>

\* a string in double quotes that holds a single quote and an escaped double quote has
\* been lexed and parsed
C17_Witness ==
  /\ source = <<"\"", "'", "\\", "\"", "\"">>
  /\ pc = "done"
  /\ Len(output) = 2
  /\ Len(body) = 1
  /\ body[1].expr.lit.value = <<"'", "\\", "\"">>

RECURSIVE StringClose(_, _)
\* for a string opened by the quote d: the index (from 1), at or after i, of the quote
\* that closes it, or the way the end of the text is reached before it
StringClose(i, d) ==
  CASE i > Len(source) -> [at |-> 0, msg |-> "EOF in string"]
    [] source[i] = "\\" ->
          (IF i + 1 > Len(source) THEN [at |-> 0, msg |-> "EOF in string escape"]
                                  ELSE StringClose(i + 2, d))
    [] source[i] = d -> [at |-> i, msg |-> ""]
    [] OTHER -> StringClose(i + 1, d)

\* the indices of the '/' of the `*/` pairs that stand after the `/*` at i
CommentCloses(i) ==
  {k \in (i + 3)..Len(source) : source[k - 1] = "*" /\ source[k] = "/"}

\* the index of the first line feed at or after i, or the end of the text
LineEnd(i) ==
  IF \E k \in i..Len(source) : source[k] = "\n"
    THEN CHOOSE k \in i..Len(source) :
           source[k] = "\n" /\ \A j \in i..(k - 1) : source[j] # "\n"
    ELSE Len(source) + 1

RECURSIVE Unterminated(_)
\* how the end of a text over OpenAlphabet is reached inside a string, an escape pair
\* or a block comment, reading tokens from index i on; "" when it is not
Unterminated(i) ==
  CASE i > Len(source) -> ""
    [] source[i] \in {"'", "\""} ->
          (IF StringClose(i + 1, source[i]).msg # ""
             THEN StringClose(i + 1, source[i]).msg
             ELSE Unterminated(StringClose(i + 1, source[i]).at + 1))
    [] source[i] = "/" /\ i < Len(source) /\ source[i + 1] = "/" ->
          Unterminated(LineEnd(i))
    [] source[i] = "/" /\ i < Len(source) /\ source[i + 1] = "*" ->
          (IF CommentCloses(i) = {}
             THEN "EOF in a comment"
             ELSE Unterminated((CHOOSE k \in CommentCloses(i) :
                                  \A j \in CommentCloses(i) : k <= j) + 1))
    [] OTHER -> Unterminated(i + 1)

\* C18: when the end of the text is reached inside a string, inside a backslash pair
\* of a string or inside a block comment (the '*' of `/*` does not close it: `/*/` is
\* open), lexing ends in an error and Lexer::walk returns no token list; on the other
\* texts over OpenAlphabet it ends in no error
C18_Unterminated ==
  /\ (source \in SeqsUpTo(OpenAlphabet, MaxOpenLen) /\ Unterminated(1) # "") =>
        /\ pc \in {"walk", "lex_error"}
        /\ tokens = <<>>
        /\ pc = "lex_error" => err.msg = Unterminated(1)
  /\ (source \in SeqsUpTo(OpenAlphabet, MaxOpenLen) /\ Unterminated(1) = "") =>
        pc # "lex_error"
  /\ source = <<"/", "*", "/">> => pc \in {"walk", "lex_error"}

\* lexing `/*/` has ended in the error of a comment left open
C18_Witness ==
  /\ source = <<"/", "*", "/">>
  /\ pc = "lex_error"
  /\ err.msg = "EOF in a comment"
  /\ tokens = <<>>

\* the characters that start an identifier
IdentifierStart == Letters \cup {"$", "_"}

\* the number of digits the text starts with
LeadingDigits ==
  IF \E i \in 1..Len(source) : source[i] \notin Digits
    THEN (CHOOSE i \in 1..Len(source) :
            source[i] \notin Digits /\ \A j \in 1..(i - 1) : source[j] \in Digits) - 1
    ELSE Len(source)

\* the text is a run of digits directly followed by an identifier-start character that
\* the numeric scan does not take in ('x', '_' and an exponent's 'e' are taken in)
DigitsThenIdentifier ==
  /\ LeadingDigits >= 1
  /\ LeadingDigits < Len(source)
  /\ source[LeadingDigits + 1] \in IdentifierStart \ {"x", "_", "e", "E"}

\* a step of the walk that pushes a Number token leaves the lexer at the end of the
\* text or before a character that does not start an identifier
C19_Step ==
  (pc = "walk" /\ Len(output') = Len(output) + 1
     /\ output'[Len(output')].kind = "Number") =>
    /\ SubSeq(source, row' - Len(output'[Len(output')].content) + 1, row')
         = output'[Len(output')].content
    /\ row' < Len(source) => source[row' + 1] \notin IdentifierStart

\* C19: the character directly after the text of a Number token never starts an
\* identifier; a numeric scan that stops directly before such a character (`3abc`)
\* is the lexical error "missing separator after number literal", and neither the
\* Number token nor a token list comes out
C19_NumberSeparator ==
  /\ [][C19_Step]_vars
  /\ [](DigitsThenIdentifier =>
          /\ pc \in {"walk", "lex_error"}
          /\ output = <<>>
          /\ tokens = <<>>
          /\ pc = "lex_error" => err.msg = "missing separator after number literal")
  /\ []((pc = "lex_error" /\ err.msg = "missing separator after number literal") =>
          /\ err.at < Len(source)
          /\ source[err.at + 1] \in IdentifierStart
          /\ tokens = <<>>)

\* lexing `3a` has ended in the error of the missing separator, with no token
C19_Witness ==
  /\ source = <<"3", "a">>
  /\ pc = "lex_error"
  /\ err.msg = "missing separator after number literal"
  /\ output = <<>>

\* the operators of TokenKind, each as <<text, kind>>
Operators ==
  { <<<<"=">>, "Equal">>, <<<<"=", "=">>, "DoubleEqual">>,
    <<<<"<">>, "LessThan">>, <<<<"<", "=">>, "LessThanEqual">>,
    <<<<"<", "<">>, "LeftShift">>, <<<<"<", "<", "=">>, "LeftShiftEqual">>,
    <<<<">">>, "GreaterThan">>, <<<<">", "=">>, "GreaterThanEqual">>,
    <<<<">", ">">>, "RightShift">>, <<<<">", ">", "=">>, "RightShiftEqual">>,
    <<<<">", ">", ">">>, "TripleGreaterThan">>,
    <<<<">", ">", ">", "=">>, "TripleGreaterThanEqual">>,
    <<<<"!">>, "Exclamation">>, <<<<"!", "=">>, "NotEqual">>,
    <<<<"+">>, "Plus">>, <<<<"+", "+">>, "DoublePlus">>, <<<<"+", "=">>, "PlusEqual">>,
    <<<<"-">>, "Minus">>, <<<<"-", "-">>, "DoubleMinus">>, <<<<"-", "=">>, "MinusEqual">>,
    <<<<"*">>, "Asterisk">>, <<<<"*", "=">>, "AsteriskEqual">>,
    <<<<"/">>, "Slash">>, <<<<"/", "=">>, "SlashEqual">>,
    <<<<"&">>, "Ampersand">>, <<<<"&", "&">>, "And">>, <<<<"&", "=">>, "AmpersandEqual">>,
    <<<<"|">>, "Bar">>, <<<<"|", "|">>, "Or">>, <<<<"|", "=">>, "BarEqual">>,
    <<<<"^">>, "Caret">>, <<<<"^", "=">>, "CaretEqual">>,
    <<<<"%">>, "Modulo">>, <<<<"%", "=">>, "ModuloEqual">>,
    <<<<"~">>, "Wave">>, <<<<"?">>, "Question">> }

\* the operators whose text is a prefix of the text from index i (from 1) on
OperatorsAt(i) ==
  {o \in Operators :
     /\ i + Len(o[1]) - 1 <= Len(source)
     /\ SubSeq(source, i, i + Len(o[1]) - 1) = o[1]}

\* the longest of them
LongestOperatorAt(i) ==
  CHOOSE o \in OperatorsAt(i) : \A q \in OperatorsAt(i) : Len(q[1]) <= Len(o[1])

\* a step of the walk that pushes an operator token pushes the longest operator that
\* is a prefix of the text from the token's first character on
C20_Step ==
  (pc = "walk" /\ Len(output') = Len(output) + 1
     /\ output'[Len(output')].kind \in {o[2] : o \in Operators}) =>
    LET tok == output'[Len(output')]
        start == row' - Len(tok.content) + 1
    IN  /\ OperatorsAt(start) # {}
        /\ <<tok.content, tok.kind>> = LongestOperatorAt(start)

\* C20: an operator token is the longest operator of the token set that is a prefix of
\* the remaining text (`>>>=` is one TripleGreaterThanEqual, `>>>` one
\* TripleGreaterThan, `>>=` one RightShiftEqual, `<<=` one LeftShiftEqual), never a
\* shorter operator followed by the rest
C20_LongestMatch ==
  /\ [][C20_Step]_vars
  /\ [](pc = "lexed" =>
          /\ source = <<">", ">", ">", "=">> =>
                Len(output) = 2 /\ output[1].kind = "TripleGreaterThanEqual"
          /\ source = <<">", ">", ">">> =>
                Len(output) = 2 /\ output[1].kind = "TripleGreaterThan"
          /\ source = <<">", ">", "=">> =>
                Len(output) = 2 /\ output[1].kind = "RightShiftEqual"
          /\ source = <<"<", "<", "=">> =>
                Len(output) = 2 /\ output[1].kind = "LeftShiftEqual")

\* `>>>=` has been lexed as one token and EOF
C20_Witness ==
  /\ source = <<">", ">", ">", "=">>
  /\ pc = "lexed"
  /\ Len(output) = 2
  /\ output[1].kind = "TripleGreaterThanEqual"
  /\ output[1].content = <<">", ">", ">", "=">>

\* the number of line terminators in the first k characters of the text, a CR directly
\* followed by LF counted once
LineTerminators(k) ==
  Cardinality({i \in 1..k :
                 \/ source[i] = "\r"
                 \/ source[i] = "\n" /\ (i = 1 \/ source[i - 1] # "\r")})

\* the number of characters among the first k that stand after the last CR or LF
SinceTerminator(k) ==
  Cardinality({i \in 1..k : \A j \in i..k : source[j] \notin {"\r", "\n"}})

RECURSIVE Consumed(_)
\* the lexer fields after k calls of get_next_char on a fresh Lexer
Consumed(k) ==
  IF k = 0 THEN [row |-> 0, line |-> 0, col |-> 0, prev_cr |-> FALSE]
           ELSE get_next_char(Consumed(k - 1)).l

\* cursor.line and cursor.row after the first k characters are what the text says
PositionAfter(k) ==
  /\ Consumed(k).line = LineTerminators(k)
  /\ Consumed(k).col = SinceTerminator(k)
  /\ k > 0 => Consumed(k).line >= Consumed(k - 1).line
  /\ (k > 0 /\ Consumed(k).col < Consumed(k - 1).col) =>
        Consumed(k).col = 0 /\ Consumed(k).line > Consumed(k - 1).line

\* a call of Lexer::next never lowers the line, and lowers the column only when it
\* consumes a line terminator
C21_Step ==
  /\ cursor'.line >= cursor.line
  /\ cursor'.row < cursor.row => cursor'.line > cursor.line

\* C21: after any prefix of the text has been consumed, cursor.line is the number of
\* line terminators in the prefix (CR LF counted once, lone CR and lone LF once each)
\* and cursor.row the number of characters consumed since the last one; the line
\* never decreases and the column drops only to 0, when the line increases
C21_Position ==
  /\ [](/\ \A k \in 0..Len(source) : PositionAfter(k)
        /\ cursor.line = LineTerminators(Min(row, Len(source)))
        /\ cursor.row = SinceTerminator(Min(row, Len(source))))
  /\ [][C21_Step]_vars

\* the lexer has consumed a text in which a CR LF pair came before other characters
C21_Witness ==
  /\ Len(source) >= 4
  /\ source[1] = "a" /\ source[2] = "\r" /\ source[3] = "\n" /\ source[4] = "a"
  /\ row >= Len(source)
  /\ cursor = [line |-> LineTerminators(Len(source)), row |-> SinceTerminator(Len(source))]
  /\ pc = "lexed"

\* the run has ended in Lexer::error, in Parser::error or in a Rust panic
Aborted == pc \in {"lex_error", "parse_error", "panic"}

\* nothing happens after an abort, and the Program is only returned from the loop of
\* Parser::parse standing at EOF with no error raised
C22_Step ==
  /\ ~Aborted
  /\ pc' = "done" => pc = "parse" /\ err.msg = "" /\ tokens[pos + 1].kind = "EOF"

\* C22: a lexical or grammar error ends the run where it is detected: no token is
\* consumed after it, nothing runs after it and no Program is returned; a Program is
\* returned only when every token up to EOF was parsed without error
C22_ErrorsAbort ==
  /\ [][C22_Step]_vars
  /\ [](pc = "lex_error" =>
          /\ err.msg # ""
          /\ tokens = <<>> /\ body = <<>> /\ pos = 0
          /\ err.at = row)
  /\ [](pc = "parse_error" =>
          /\ err.msg # ""
          /\ err.at = Min(pos, Len(tokens) - 1))
  /\ [](pc = "done" =>
          /\ err.msg = ""
          /\ tokens = output
          /\ pos = Len(tokens) - 1
          /\ tokens[Len(tokens)].kind = "EOF")

\* a grammar error was raised at the second token, after one statement had been parsed
C22_Witness ==
  /\ pc = "parse_error"
  /\ Len(body) = 1
  /\ err.at = pos
  /\ pos < Len(tokens) - 1

\* the run has ended: with the Program, or in an error or a panic
Terminated == pc = "done" \/ Aborted

\* a call of Lexer::next consumes a character unless it returns EOF, and an iteration
\* of the loop of Parser::parse consumes a token unless it ends in an error
C23_Step ==
  /\ pc = "walk" => Min(row', Len(source)) > row \/ pc' = "lexed"
  /\ (pc = "parse" /\ pc' = "parse") => pos' > pos

\* a statement parsed from token i on, as an iteration of a statement list or of a
\* function body does, takes a token or ends in an error
StatementsConsume ==
  \A i \in 0..(Len(tokens) - 2) :
    Ok(parse_statement(At(i, TRUE))) => parse_statement(At(i, TRUE)).pos > i

\* C23: lexing followed by parsing ends, with a Program or with an error: each call of
\* Lexer::next consumes a character or returns EOF, and each iteration of a parser
\* loop consumes a token or raises an error
C23_Terminates ==
  /\ <>Terminated
  /\ [](Terminated \/ pc \in {"walk", "lexed", "parse"})
  /\ [][C23_Step]_vars
  /\ []((pc = "parse" /\ pos = 0) => StatementsConsume)

\* the program loop has run twice and returned the Program
C23_Witness ==
  /\ pc = "done"
  /\ Len(body) >= 2
  /\ Len(source) > 0
  /\ StatementsConsume

RECURSIVE SecondWalk(_, _)
\* a second run of Lexer::walk on the same text, from the lexer fields l with the
\* tokens out pushed so far
SecondWalk(l, out) ==
  IF next(l).err # ""
    THEN [pc |-> "lex_error", output |-> <<>>,
          err |-> [at |-> next(l).l.row, msg |-> next(l).err]]
  ELSE IF next(l).token.kind = "EOF"
    THEN [pc |-> "lexed", output |-> Append(out, next(l).token), err |-> NoError]
  ELSE SecondWalk(next(l).l, Append(out, next(l).token))

RECURSIVE SecondParse(_, _)
\* a second run of Parser::parse on the same token list, from the parser state p with
\* the statements stmts pushed so far
SecondParse(p, stmts) ==
  IF peek(p).kind = "EOF"
    THEN [pc |-> "done", body |-> stmts, err |-> NoError]
  ELSE IF Ok(parse_loop_body(p))
    THEN SecondParse(parse_loop_body(p), Append(stmts, parse_loop_body(p).v))
  ELSE [pc |-> IF parse_loop_body(p).st = "error" THEN "parse_error" ELSE "panic",
        body |-> <<>>,
        err |-> [at |-> parse_loop_body(p).at, msg |-> parse_loop_body(p).msg]]

\* a fresh Lexer: cursor 0:0, row 0, prev_cr false
FreshLexer == [row |-> 0, line |-> 0, col |-> 0, prev_cr |-> FALSE]

AssignOpOf(w) ==
  CASE w = <<"=">> -> "Assign"
    [] w = <<"+", "=">> -> "AddAssign"
    [] w = <<"-", "=">> -> "SubAssign"
    [] w = <<"*", "=">> -> "MulAssign"
    [] w = <<"/", "=">> -> "DivAssign"
    [] w = <<"%", "=">> -> "ModAssign"
    [] w = <<"<", "<", "=">> -> "ShlAssign"
    [] w = <<">", ">", "=">> -> "ShrAssign"
    [] w = <<">", ">", ">", "=">> -> "UShrAssign"
    [] w = <<"&", "=">> -> "BitAndAssign"
    [] w = <<"^", "=">> -> "BitXorAssign"
    [] w = <<"|", "=">> -> "BitOrAssign"

\* the token list is `name OP name ... OP name ; EOF` with assignment operators
IsAssignChain ==
  /\ Len(tokens) >= 3
  /\ Len(tokens) % 2 = 1
  /\ tokens[Len(tokens)].kind = "EOF"
  /\ tokens[Len(tokens) - 1].kind = "SemiColon"
  /\ \A i \in 1..(Len(tokens) - 2) :
        IF i % 2 = 1 THEN tokens[i].kind = "Identifier"
                     ELSE tokens[i].content \in AssignWords

RECURSIVE AssignTree(_)
\* the tree of the chain from the name at token i (from 1) on, nested to the right
AssignTree(i) ==
  IF tokens[i + 1].kind = "SemiColon"
    THEN Identifier(tokens[i].content)
    ELSE [t |-> "Assign", target |-> Identifier(tokens[i].content),
          op |-> AssignOpOf(tokens[i + 1].content), value |-> AssignTree(i + 2)]

\* C25: `a op1 b op2 c` with assignment operators is Assign{a, op1, Assign{b, op2, c}},
\* each of the twelve operators giving its own AssignOp (`a += 1` gives AddAssign)
C25_Assignment ==
  /\ (IsAssignChain /\ Parsed) =>
        /\ pc = "done"
        /\ body = <<ExprStmt(AssignTree(1))>>
  /\ (source = AssignText /\ Parsed) =>
        /\ pc = "done"
        /\ Len(body) = 1
        /\ body[1].t = "Expr"
        /\ body[1].expr.t = "Assign"
        /\ body[1].expr.target = Identifier(<<"a">>)
        /\ body[1].expr.op = "AddAssign"
        /\ body[1].expr.value.t = "Literal"

\* `a >>>= b |= c ;` has been lexed and parsed
C25_Witness ==
  /\ pc = "done"
  /\ row > 0
  /\ IsAssignChain
  /\ Len(tokens) = 7
  /\ tokens[2].kind = "TripleGreaterThanEqual"
  /\ tokens[4].kind = "BarEqual"
  /\ body = <<ExprStmt([t |-> "Assign", target |-> Identifier(<<"a">>), op |-> "UShrAssign",
                         value |-> [t |-> "Assign", target |-> Identifier(<<"b">>),
                                    op |-> "BitOrAssign",
                                    value |-> Identifier(<<"c">>)]])>>

\* the token list is `var name [= name] , ... ; EOF`
IsVarProgram ==
  /\ Len(tokens) >= 4
  /\ tokens[1].kind = "Var"
  /\ tokens[Len(tokens)].kind = "EOF"
  /\ tokens[Len(tokens) - 1].kind = "SemiColon"
  /\ \A i \in 2..(Len(tokens) - 2) :
        /\ tokens[i].kind \in {"Identifier", "Equal", "Comma"}
        /\ tokens[i].kind = "Identifier" =>
              tokens[i + 1].kind \in {"Equal", "Comma", "SemiColon"}
        /\ tokens[i].kind \in {"Equal", "Comma"} => tokens[i + 1].kind = "Identifier"
        /\ tokens[i].kind = "Equal" => tokens[i + 2].kind \in {"Comma", "SemiColon"}
  /\ tokens[2].kind = "Identifier"

RECURSIVE DeclsFrom(_)
\* the entries of the declarations from the name at token i (from 1) on: the name with
\* Some(expr) when `= expr` is written after it and with None when it is not
DeclsFrom(i) ==
  IF tokens[i + 1].kind = "Equal"
    THEN <<<<tokens[i].content, Some(Identifier(tokens[i + 2].content))>>>>
           \o (IF tokens[i + 3].kind = "Comma" THEN DeclsFrom(i + 4) ELSE <<>>)
    ELSE <<<<tokens[i].content, None>>>>
           \o (IF tokens[i + 1].kind = "Comma" THEN DeclsFrom(i + 2) ELSE <<>>)

\* C26: each entry of a Var statement has Some(expr) for a name written with `= expr`
\* and None for a name written without `=`, the entries standing in source order
C26_VarInitializers ==
  (IsVarProgram /\ Parsed) =>
    /\ pc = "done"
    /\ body = <<[t |-> "Var", vars |-> DeclsFrom(2)]>>

\* `x in o` with the name x at token k (from 1)
InExpr(k) == Binary("In", Identifier(tokens[k].content), Identifier(tokens[k + 2].content))

\* the statement at token k: `;` or `x in o ;`, and the token after it
InStmt(k) == IF tokens[k].kind = "SemiColon" THEN [t |-> "Empty"] ELSE ExprStmt(InExpr(k))

AfterInStmt(k) == IF tokens[k].kind = "SemiColon" THEN k + 1 ELSE k + 4

\* the statement after the one at token k, if there is one
InStmtsFrom(k) ==
  IF tokens[AfterInStmt(k)].kind = "EOF" THEN <<>> ELSE <<InStmt(AfterInStmt(k))>>

\* the token list is a `for` with two ';' in its head and no `in` before the first
IsCForIn ==
  /\ Len(tokens) >= 7
  /\ tokens[1].kind = "For" /\ tokens[2].kind = "OpenParen"
  /\ \E k \in 3..Len(tokens) :
        tokens[k].kind = "SemiColon" /\ \A j \in 3..k : tokens[j].kind # "In"

\* the token list is a `for ( HEAD in o )` with a name or a `var` list as HEAD
IsForInIn ==
  /\ Len(tokens) >= 7
  /\ tokens[1].kind = "For" /\ tokens[2].kind = "OpenParen"
  /\ (tokens[3].kind = "Var" \/ tokens[4].kind = "In")
  /\ \E k \in 4..(Len(tokens) - 2) :
        /\ tokens[k].kind = "In" /\ tokens[k + 2].kind = "CloseParen"
        /\ \A j \in 3..(k - 1) : tokens[j].kind \notin {"In", "OpenParen", "SemiColon"}

\* condition, update, body and next statement of a `for` whose first ';' is token s1
CForParts(s1) ==
  LET cond == IF tokens[s1 + 1].kind = "SemiColon" THEN None ELSE Some(InExpr(s1 + 1))
      s2 == IF tokens[s1 + 1].kind = "SemiColon" THEN s1 + 1 ELSE s1 + 4
      update == IF tokens[s2 + 1].kind = "CloseParen" THEN None ELSE Some(InExpr(s2 + 1))
      cp == IF tokens[s2 + 1].kind = "CloseParen" THEN s2 + 1 ELSE s2 + 4
  IN  /\ Len(body) = 1 + Len(InStmtsFrom(cp + 1))
      /\ body[1].t = "For"
      /\ body[1].cond = cond
      /\ body[1].update = update
      /\ body[1].body = InStmt(cp + 1)
      /\ SubSeq(body, 2, Len(body)) = InStmtsFrom(cp + 1)

\* `in` after a shift expression that starts at token i is taken by
\* parse_relational_expression when allow_in is true and left when it is false
InTakenAt(i) ==
  LET st == parse_shift_expression(At(i, TRUE))
      sf == parse_shift_expression(At(i, FALSE))
  IN  (Ok(st) /\ peek(st).kind = "In") =>
        /\ parse_relational_expression(At(i, TRUE)).pos > st.pos
        /\ Ok(parse_relational_expression(At(i, TRUE))) =>
              parse_relational_expression(At(i, TRUE)).v.t = "Binary"
        /\ parse_relational_expression(At(i, FALSE)) = sf
        /\ sf.pos = st.pos

\* C27: `in` is taken as Binary(In) exactly when allow_in is true; allow_in is false
\* only inside the init part of a `for` head, so the condition, the update and the body
\* of a `for` and the statements after it are parsed with allow_in true
C27_AllowIn ==
  /\ pc \in {"parse", "done"} => allow_in = TRUE
  /\ (pc = "parse" /\ pos = 0) => \A i \in 0..(Len(tokens) - 2) : InTakenAt(i)
  /\ (Parsed /\ IsCForIn) =>
        /\ pc = "done"
        /\ CForParts(CHOOSE k \in 3..Len(tokens) :
                        tokens[k].kind = "SemiColon"
                          /\ \A j \in 3..(k - 1) : tokens[j].kind # "SemiColon")
  /\ (Parsed /\ IsForInIn) =>
        /\ pc = "done"
        /\ body[1].t = "ForIn"
        /\ LET cp == CHOOSE k \in 4..Len(tokens) :
                        tokens[k].kind = "CloseParen"
                          /\ \A j \in 4..(k - 1) : tokens[j].kind # "CloseParen"
           IN  /\ body[1].body = InStmt(cp + 1)
               /\ SubSeq(body, 2, Len(body)) = InStmtsFrom(cp + 1)

\* `for ( i = a ; a in o ; b in o ) c in o ; d in o ;` has been lexed and parsed
C27_Witness ==
  /\ pc = "done"
  /\ row > 0
  /\ allow_in = TRUE
  /\ IsCForIn
  /\ Len(body) = 2
  /\ body[1].t = "For"
  /\ body[1].init # None
  /\ body[1].cond = Some(Binary("In", Identifier(<<"a">>), Identifier(<<"o">>)))
  /\ body[1].update = Some(Binary("In", Identifier(<<"b">>), Identifier(<<"o">>)))
  /\ body[1].body = ExprStmt(Binary("In", Identifier(<<"c">>), Identifier(<<"o">>)))
  /\ body[2] = ExprStmt(Binary("In", Identifier(<<"d">>), Identifier(<<"o">>)))

\* the token list given to Parser::parse ends with its only EOF token
EndsWithOneEOF ==
  /\ tokens # <<>>
  /\ \A i \in 1..Len(tokens) : tokens[i].kind = "EOF" <=> i = Len(tokens)

\* C28: for a token list that ends with its only EOF token, pos never decreases and
\* never passes the index of EOF, so advance is never called on EOF and its
\* tokens[pos] is never out of bounds
C28_PosInBounds ==
  /\ [][pos' >= pos]_vars
  /\ [](EndsWithOneEOF =>
          /\ pos <= Len(tokens) - 1
          /\ pc = "parse_error" => err.at <= Len(tokens) - 1
          /\ pc # "panic")

\* a parse ended in an error reported at the EOF token, with pos on it
C28_Witness ==
  /\ EndsWithOneEOF
  /\ Len(tokens) >= 10
  /\ pc = "parse_error"
  /\ pos = Len(tokens) - 1
  /\ err.at = pos

\* C29: a text that the numeric scan accepts as one Number token is converted into a
\* numeric literal: the conversion never fails, and the statement made of the token
\* alone is the expression statement of a Literal::Number
C29_NumberConversion ==
  (Parsed /\ tokens # <<>> /\ tokens[1].kind = "Number") =>
    /\ pc # "panic"
    /\ Len(tokens) = 2 =>
          /\ pc = "done"
          /\ Len(body) = 1
          /\ body[1].t = "Expr"
          /\ body[1].expr.t = "Literal"
          /\ body[1].expr.lit.t = "Number"

\* SpecIdent: every text of at most MaxIdLen characters over IdAlphabet
MaxIdLen == 4

IdAlphabet == {"a", "i", "f", "I", "$", "_", "1", " "}

InitIdent == \E src \in SeqsUpTo(IdAlphabet, MaxIdLen) : Start(src)

SpecIdent == InitIdent /\ [][Next]_vars

\* the identifier characters: letters, digits, '$' and '_'
IdentifierChars == Letters \cup Digits \cup {"$", "_"}

\* the whole text is one run of identifier characters that starts with a letter, '$' or '_'
IsIdentifierRun ==
  /\ source # <<>>
  /\ source[1] \in IdentifierStart
  /\ \A i \in 1..Len(source) : source[i] \in IdentifierChars

\* a step of the walk that pushes a token starting with a letter, '$' or '_' has taken the
\* characters up to the end of the run, and the kind is the keyword's exactly for a
\* keyword's spelling
C30_Step ==
  (/\ pc = "walk"
   /\ Len(output') = Len(output) + 1
   /\ output'[Len(output')].kind # "EOF"
   /\ output'[Len(output')].content[1] \in IdentifierStart) =>
    LET tok == output'[Len(output')]
    IN  /\ SubSeq(source, row' - Len(tok.content) + 1, row') = tok.content
        /\ row' < Len(source) => source[row' + 1] \notin IdentifierChars
        /\ tok.kind = keyword_kind(tok.content)
        /\ tok.content = <<"i", "f">> => tok.kind = "If"
        /\ tok.content \in {<<"I", "f">>, <<"i", "f", "a">>, <<"i", "f", "$">>} =>
              tok.kind = "Identifier"

\* C30: a maximal run of letters, digits, '$' and '_' that starts with a letter, '$' or
\* '_' is one token whose content is the whole run, of the keyword's kind when the run
\* is a keyword's exact spelling and Identifier otherwise; a '$' inside a name (`a$b`)
\* does not split it
C30_IdentifierRun ==
  /\ [][C30_Step]_vars
  /\ []((IsIdentifierRun /\ pc # "walk") =>
          /\ pc # "lex_error"
          /\ Len(output) = 2
          /\ output[1].content = source
          /\ output[1].kind = keyword_kind(source)
          /\ output[2].kind = "EOF")

====
